---- MODULE Spec2Model ----
(***************************************************************************)
(* Model of tensorflow_gnn/graph/graph_tensor_ops.py: the reduce-operation *)
(* registry and the broadcast / pool / gather functions over scalar graph  *)
(* tensors, and of the adaptation horizon of the trajectory length         *)
(* adaptation kernel.                                                      *)
(*                                                                         *)
(* A feature is a dense rank-1 integer tensor, written as a sequence, or a *)
(* ragged one, written as its row lengths and flat values; the             *)
(* 0-based indices of the code are kept in adjacency and cumsum values and *)
(* shifted by one where a sequence is indexed.  A Python Optional is a     *)
(* sequence of length 0 (None) or 1.  A call of a function of the module   *)
(* yields an outcome record: the exception raised ("none" when the call    *)
(* returns), the value returned, the reduce operation that was applied and *)
(* the underlying function a generic broadcast() / pool() delegated to.    *)
(***************************************************************************)
EXTENDS Integers, Sequences, FiniteSets, TLC

VARIABLES
  _REGISTERED_REDUCE_OPS,  \* the registry: an insertion-ordered dict
  graph_tensor,            \* the scalar graph tensor the calls are made on
  call,                    \* the call being made: function name and arguments
  result,                  \* outcome of that call
  last_registered,         \* history: the operation last registered under each name
  kernel,                  \* the trajectory length adaptation kernel, once constructed
  kernel_results           \* the kernel results its caller threads through one_step,
                           \* those of each replica where the chains are sharded

vars == <<_REGISTERED_REDUCE_OPS, graph_tensor, call, result, last_registered, kernel, kernel_results>>

----------------------------------------------------------------------------
(* Bounds of the model. *)

MaxComponents == 3   \* graph components batched in one graph tensor
MaxSize == 3         \* nodes of one component
MaxNodes == 4        \* nodes of a graph tensor of one component
MaxEdges == 4        \* edges of a graph tensor of one component
MaxShuffled == 3     \* rows of a tensor of which every order is drawn by a shuffle
MaxShuffledComponents == 2   \* graph components of a graph tensor that is shuffled
MaxAdaptationSteps == 3      \* num_adaptation_steps of a kernel
MaxSteps == 6                \* one_step calls on the results of one bootstrap
MaxTrajectoryLength == 8     \* max_trajectory_length, in units of the step size
MaxChains == 3               \* chains along one batch dimension of accept_prob
MaxNesting == 2              \* kernels wrapped around a kernel
MaxReplicas == 2             \* replicas that the chains are sharded across
MaxShardedSteps == 2         \* one_step calls of a sharded kernel

----------------------------------------------------------------------------
(* Python values. *)

None == <<>>
Some(v) == <<v>>
Val(o) == o[1]

CONTEXT == "context"
SOURCE == "source"
TARGET == "target"
NodeTags == {SOURCE, TARGET}
Tags == {CONTEXT, SOURCE, TARGET}

NoVia == [fn |-> "none", set_name |-> None]

\* Outcome of a call that returns v.  value is the feature value the call
\* resolved from feature_value / feature_name, op the reduce operation it applied.
Ok(v) ==
  [exc |-> "none", msg |-> "", ret |-> v, value |-> None, op |-> "none", via |-> NoVia]

\* Outcome of a call that raises exception e with message m.
Raise(e, m) ==
  [exc |-> e, msg |-> m, ret |-> None, value |-> None, op |-> "none", via |-> NoVia]

\* A keyword argument that the caller leaves out takes its default.
Omitted == "<omitted>"

Default(arg, default) == IF arg = Omitted THEN default ELSE arg

Returned(r) == r.exc = "none"

----------------------------------------------------------------------------
(* Insertion-ordered dict, as a sequence of [key, value] entries. *)

DictKeys(d) == [i \in 1..Len(d) |-> d[i].key]

DictHas(d, k) == \E i \in 1..Len(d) : d[i].key = k

DictGet(d, k) == d[CHOOSE i \in 1..Len(d) : d[i].key = k].value

\* Mutant: an entry is added also when the key is present.
DictSet_append(d, k, v) == Append(d, [key |-> k, value |-> v])

DictSet(d, k, v) ==
  IF DictHas(d, k)
  THEN [i \in 1..Len(d) |-> IF d[i].key = k THEN [key |-> k, value |-> v] ELSE d[i]]
  ELSE Append(d, [key |-> k, value |-> v])

----------------------------------------------------------------------------
(* Tensor primitives the module calls. *)

RECURSIVE SeqSum(_)
SeqSum(s) == IF Len(s) = 0 THEN 0 ELSE s[1] + SeqSum(Tail(s))

\* tf.gather(params, indices); an index out of range is an error (CPU kernel).
tf_gather(params, indices) ==
  IF \E i \in 1..Len(indices) : indices[i] \notin 0..(Len(params) - 1)
  THEN Raise("InvalidArgumentError", "indices is not in [0, " \o ToString(Len(params)) \o ")")
  ELSE Ok([i \in 1..Len(indices) |-> params[indices[i] + 1]])

\* Mutant: the cumulative sum includes the element itself (exclusive=False).
tf_cumsum_inclusive(x) == [i \in 1..Len(x) |-> SeqSum(SubSeq(x, 1, i))]

\* tf.math.cumsum(x, exclusive=True)
tf_cumsum_exclusive(x) == [i \in 1..Len(x) |-> SeqSum(SubSeq(x, 1, i - 1))]

\* The orders of n rows: sequences of the indices 0 .. n-1, each once.
Orders(n) == {p \in [1..n -> 0..(n - 1)] : \A i, j \in 1..n : p[i] = p[j] => i = j}

\* The orders that start at some index and go round.
Rotations(n) == {[i \in 1..n |-> (i - 1 + k) % n] : k \in 0..(n - 1)}

\* The orders that a random shuffle of n rows draws from: every order of up
\* to MaxShuffled rows, the rotations of more rows.
DrawnOrders(n) == IF n <= MaxShuffled THEN Orders(n) ELSE Rotations(n)

\* tf.random.shuffle(value, seed): the values it can return.
tf_random_shuffle(value) ==
  {[i \in 1..Len(value) |-> value[p[i] + 1]] : p \in DrawnOrders(Len(value))}

\* tf.argsort(values): the index vectors it can return; the order among equal
\* elements is not specified.
tf_argsort(values) ==
  {p \in Orders(Len(values)) :
     \A i, j \in 1..Len(values) : i < j => values[p[i] + 1] <= values[p[j] + 1]}

\* The rows of data whose segment id is k, in order.
Segment(data, segment_ids, k) ==
  LET idx == {i \in 1..Len(data) : segment_ids[i] = k}
      RECURSIVE Pick(_, _)
      Pick(i, acc) == IF i > Len(data) THEN acc
                      ELSE Pick(i + 1, IF i \in idx THEN Append(acc, data[i]) ELSE acc)
  IN Pick(1, <<>>)

Inf == 99

RECURSIVE SeqProd(_)
SeqProd(s) == IF Len(s) = 0 THEN 1 ELSE s[1] * SeqProd(Tail(s))

SeqMax(s) ==
  IF Len(s) = 0 THEN -Inf
  ELSE CHOOSE m \in {s[i] : i \in 1..Len(s)} : \A i \in 1..Len(s) : s[i] <= m

SeqMin(s) ==
  IF Len(s) = 0 THEN Inf
  ELSE CHOOSE m \in {s[i] : i \in 1..Len(s)} : \A i \in 1..Len(s) : m <= s[i]

unsorted_segment_sum(data, segment_ids, num_segments) ==
  [k \in 1..num_segments |-> SeqSum(Segment(data, segment_ids, k - 1))]

unsorted_segment_prod(data, segment_ids, num_segments) ==
  [k \in 1..num_segments |-> SeqProd(Segment(data, segment_ids, k - 1))]

unsorted_segment_max(data, segment_ids, num_segments) ==
  [k \in 1..num_segments |-> SeqMax(Segment(data, segment_ids, k - 1))]

unsorted_segment_min(data, segment_ids, num_segments) ==
  [k \in 1..num_segments |-> SeqMin(Segment(data, segment_ids, k - 1))]

\* A mean is a fraction: it is written in units of 1 / MeanUnit, which is
\* exact for segments of up to 6 rows.
MeanUnit == 60

unsorted_segment_mean(data, segment_ids, num_segments) ==
  [k \in 1..num_segments |->
     LET seg == Segment(data, segment_ids, k - 1)
     IN (SeqSum(seg) * MeanUnit) \div (IF Len(seg) = 0 THEN 1 ELSE Len(seg))]

NotCallable == "not_callable"

callable(op) == op # NotCallable

ReduceSegments(op, data, segment_ids, num_segments) ==
  CASE op = "unsorted_segment_sum" -> unsorted_segment_sum(data, segment_ids, num_segments)
    [] op = "unsorted_segment_mean" -> unsorted_segment_mean(data, segment_ids, num_segments)
    [] op = "unsorted_segment_max" -> unsorted_segment_max(data, segment_ids, num_segments)
    [] op = "unsorted_segment_min" -> unsorted_segment_min(data, segment_ids, num_segments)
    [] op = "unsorted_segment_prod" -> unsorted_segment_prod(data, segment_ids, num_segments)

\* unsorted_reduce_op(feature, segment_ids, num_segments); the shape of
\* segment_ids must be a prefix of the shape of feature.
ApplyReduceOp(op, data, segment_ids, num_segments) ==
  IF Len(data) # Len(segment_ids)
  THEN Raise("InvalidArgumentError", "segment_ids.shape is not a prefix of data.shape")
  ELSE Ok(ReduceSegments(op, data, segment_ids, num_segments))

----------------------------------------------------------------------------
(* tensor_utils helpers. *)

RECURSIVE Replicate(_, _)
Replicate(v, n) == IF n <= 0 THEN <<>> ELSE <<v>> \o Replicate(v, n - 1)

\* utils.repeat(value, repeats): value[c] repeated repeats[c] times, in order.
RECURSIVE utils_repeat(_, _)
utils_repeat(value, repeats) ==
  IF Len(repeats) = 0 THEN <<>>
  ELSE Replicate(value[1], repeats[1]) \o utils_repeat(Tail(value), Tail(repeats))

\* utils.row_lengths_to_row_ids(row_lengths): row id c repeated row_lengths[c] times.
row_lengths_to_row_ids(row_lengths) ==
  utils_repeat([c \in 1..Len(row_lengths) |-> c - 1], row_lengths)

\* utils.outer_dimension_size(value)
outer_dimension_size(value) == Len(value)

----------------------------------------------------------------------------
(* Graph tensors. *)

\* node_set.total_size, node_set.spec.total_size
total_size(node_or_edge_set) == SeqSum(node_or_edge_set.sizes)

Ramp(base, n) == [i \in 1..n |-> base + i]

\* A feature is a tf.Tensor, written as the sequence of its rows, or a
\* tf.RaggedTensor, written as its row lengths and its flat values;
\* features_spec tells which.
RaggedTensor(row_lengths, values) == [row_lengths |-> row_lengths, values |-> values]

\* ragged.value_rowids()
value_rowids(ragged) == row_lengths_to_row_ids(ragged.row_lengths)

\* ragged.with_values(new_values)
with_values(ragged, new_values) == [ragged EXCEPT !.values = new_values]

\* graph_tensor.replace_features(context, node_sets, edge_sets): the features
\* of the context and of the node and edge sets named are replaced; sizes and
\* adjacency are kept.
replace_features(graph, context, node_sets, edge_sets) ==
  [context |-> [graph.context EXCEPT !.features = context],
   node_sets |-> [n \in DOMAIN graph.node_sets |->
                    IF n \in DOMAIN node_sets
                    THEN [graph.node_sets[n] EXCEPT !.features = node_sets[n]]
                    ELSE graph.node_sets[n]],
   edge_sets |-> [e \in DOMAIN graph.edge_sets |->
                    IF e \in DOMAIN edge_sets
                    THEN [graph.edge_sets[e] EXCEPT !.features = edge_sets[e]]
                    ELSE graph.edge_sets[e]]]

Context(num_components, base) ==
  [sizes |-> [c \in 1..num_components |-> 1],
   features |-> [f \in {"h"} |-> Ramp(base, num_components)],
   features_spec |-> [f \in {"h"} |-> "Tensor"]]

NodeSet(sizes, base) ==
  [sizes |-> sizes,
   features |-> [f \in {"h"} |-> Ramp(base, SeqSum(sizes))],
   features_spec |-> [f \in {"h"} |-> "Tensor"]]

EdgeSet(sizes, base, source_name, target_name, source, target) ==
  [sizes |-> sizes,
   features |-> [f \in {"h"} |-> Ramp(base, SeqSum(sizes))],
   features_spec |-> [f \in {"h"} |-> "Tensor"],
   adjacency |-> [node_set_name |-> [t \in NodeTags |-> IF t = SOURCE THEN source_name ELSE target_name],
                  indices |-> [t \in NodeTags |-> IF t = SOURCE THEN source ELSE target]]]

\* graph_tensor.node_sets[name], graph_tensor.edge_sets[name]
HasSet(sets, name) == name # None /\ Val(name) \in DOMAIN sets

----------------------------------------------------------------------------
(* The reduce-operation registry. *)

InitialReduceOps ==
  << [key |-> "sum", value |-> "unsorted_segment_sum"],
     [key |-> "mean", value |-> "unsorted_segment_mean"],
     [key |-> "max", value |-> "unsorted_segment_max"],
     [key |-> "min", value |-> "unsorted_segment_min"],
     [key |-> "prod", value |-> "unsorted_segment_prod"] >>

get_registered_reduce_operation_names(registry) == Ok(DictKeys(registry))

\* Mutant: the entry is assigned before unsorted_reduce_op is checked.
register_reduce_operation_assign_first(registry, reduce_type, unsorted_reduce_op, allow_override) ==
  IF ~allow_override /\ DictHas(registry, reduce_type)
  THEN [out |-> Raise("ValueError", "Reduce operation with that name already exists."),
        registry |-> registry]
  ELSE [out |-> IF callable(unsorted_reduce_op) THEN Ok(None) ELSE Raise("AssertionError", ""),
        registry |-> DictSet(registry, reduce_type, unsorted_reduce_op)]

\* The outcome of register_reduce_operation and the registry it leaves.
register_reduce_operation(registry, reduce_type, unsorted_reduce_op, allow_override) ==
  IF ~allow_override /\ DictHas(registry, reduce_type)
  THEN [out |-> Raise("ValueError", "Reduce operation with that name already exists."),
        registry |-> registry]
  ELSE IF ~callable(unsorted_reduce_op)
  THEN [out |-> Raise("AssertionError", ""), registry |-> registry]
  ELSE [out |-> Ok(None),
        registry |-> DictSet(registry, reduce_type, unsorted_reduce_op)]

\* Mutant: the operation is looked up in the registry as it was at load time.
_resolve_reduce_op_load_time(registry, reduce_type) ==
  IF DictHas(InitialReduceOps, reduce_type)
  THEN Ok(DictGet(InitialReduceOps, reduce_type))
  ELSE Raise("ValueError", "Unknown reduce type " \o reduce_type \o ".")

\* Mutant: an unknown reduce type falls back to the sum.
_resolve_reduce_op_fallback(registry, reduce_type) ==
  IF DictHas(registry, reduce_type)
  THEN Ok(DictGet(registry, reduce_type))
  ELSE Ok("unsorted_segment_sum")

_resolve_reduce_op(registry, reduce_type) ==
  IF DictHas(registry, reduce_type)
  THEN Ok(DictGet(registry, reduce_type))
  ELSE Raise("ValueError", "Unknown reduce type " \o reduce_type \o ".")

\* Mutant: only the absence of both arguments is an error.
resolve_value_prefer_value(values_map, feature_value, feature_name) ==
  IF feature_value = None /\ feature_name = None
  THEN Raise("ValueError", "One of feature name of feature value must be specified.")
  ELSE IF feature_value # None
  THEN [Ok(Val(feature_value)) EXCEPT !.value = feature_value]
  ELSE [Ok(values_map[Val(feature_name)]) EXCEPT !.value = Some(values_map[Val(feature_name)])]

resolve_value(values_map, feature_value, feature_name) ==
  IF (feature_value = None) = (feature_name = None)
  THEN Raise("ValueError", "One of feature name of feature value must be specified.")
  ELSE IF feature_value # None
  THEN [Ok(Val(feature_value)) EXCEPT !.value = feature_value]
  ELSE [Ok(values_map[Val(feature_name)]) EXCEPT !.value = Some(values_map[Val(feature_name)])]

\* The outcome of the last step of a function: that of the tensor primitive,
\* with the value the function resolved and the reduce operation it applied.
Finish(primitive, resolved, op) ==
  [primitive EXCEPT !.value = resolved.value, !.op = op]

----------------------------------------------------------------------------
(* Broadcast, pool and gather. *)

\* Mutant: the node values are gathered along the TARGET indices, whatever
\* node_tag is.
broadcast_node_to_edges_at_target(graph, edge_set_name, node_tag, feature_value, feature_name) ==
  IF ~HasSet(graph.edge_sets, edge_set_name) THEN Raise("KeyError", "edge_sets") ELSE
  LET adjacency == graph.edge_sets[Val(edge_set_name)].adjacency
      node_name == adjacency.node_set_name[node_tag]
      node_value == resolve_value(graph.node_sets[node_name].features,
                                  feature_value, feature_name)
  IN IF ~Returned(node_value) THEN node_value
     ELSE Finish(tf_gather(node_value.ret, adjacency.indices[TARGET]), node_value, "none")

broadcast_node_to_edges(graph, edge_set_name, node_tag, feature_value, feature_name) ==
  IF ~HasSet(graph.edge_sets, edge_set_name) THEN Raise("KeyError", "edge_sets") ELSE
  LET adjacency == graph.edge_sets[Val(edge_set_name)].adjacency
      node_name == adjacency.node_set_name[node_tag]
      node_value == resolve_value(graph.node_sets[node_name].features,
                                  feature_value, feature_name)
  IN IF ~Returned(node_value) THEN node_value
     ELSE Finish(tf_gather(node_value.ret, adjacency.indices[node_tag]), node_value, "none")

\* Mutant: the number of segments is taken from the largest node index that
\* an edge lists, not from the size of the node set.
pool_edges_to_node_count_from_indices(registry, graph, edge_set_name, node_tag, reduce_type_arg, feature_value, feature_name) ==
  LET reduce_type == Default(reduce_type_arg, "sum")
      unsorted_reduce_op == _resolve_reduce_op(registry, reduce_type)
  IN
  IF ~Returned(unsorted_reduce_op) THEN unsorted_reduce_op ELSE
  IF ~HasSet(graph.edge_sets, edge_set_name) THEN Raise("KeyError", "edge_sets") ELSE
  LET edge_value == resolve_value(graph.edge_sets[Val(edge_set_name)].features,
                                  feature_value, feature_name)
  IN IF ~Returned(edge_value) THEN edge_value ELSE
  LET adjacency == graph.edge_sets[Val(edge_set_name)].adjacency
      indices == adjacency.indices[node_tag]
      total_node_count == IF Len(indices) = 0 THEN 0 ELSE SeqMax(indices) + 1
  IN Finish(ApplyReduceOp(unsorted_reduce_op.ret, edge_value.ret, indices, total_node_count),
            edge_value, unsorted_reduce_op.ret)

\* Mutant: the edges are pooled at their SOURCE node, whatever node_tag is.
pool_edges_to_node_at_source(registry, graph, edge_set_name, node_tag, reduce_type_arg, feature_value, feature_name) ==
  LET reduce_type == Default(reduce_type_arg, "sum")
      unsorted_reduce_op == _resolve_reduce_op(registry, reduce_type)
  IN
  IF ~Returned(unsorted_reduce_op) THEN unsorted_reduce_op ELSE
  IF ~HasSet(graph.edge_sets, edge_set_name) THEN Raise("KeyError", "edge_sets") ELSE
  LET edge_value == resolve_value(graph.edge_sets[Val(edge_set_name)].features,
                                  feature_value, feature_name)
  IN IF ~Returned(edge_value) THEN edge_value ELSE
  LET adjacency == graph.edge_sets[Val(edge_set_name)].adjacency
      node_set == graph.node_sets[adjacency.node_set_name[SOURCE]]
      total_node_count == total_size(node_set)
  IN Finish(ApplyReduceOp(unsorted_reduce_op.ret, edge_value.ret,
                          adjacency.indices[SOURCE], total_node_count),
            edge_value, unsorted_reduce_op.ret)

pool_edges_to_node(registry, graph, edge_set_name, node_tag, reduce_type_arg, feature_value, feature_name) ==
  LET reduce_type == Default(reduce_type_arg, "sum")
      unsorted_reduce_op == _resolve_reduce_op(registry, reduce_type)
  IN
  IF ~Returned(unsorted_reduce_op) THEN unsorted_reduce_op ELSE
  IF ~HasSet(graph.edge_sets, edge_set_name) THEN Raise("KeyError", "edge_sets") ELSE
  LET edge_value == resolve_value(graph.edge_sets[Val(edge_set_name)].features,
                                  feature_value, feature_name)
  IN IF ~Returned(edge_value) THEN edge_value ELSE
  LET adjacency == graph.edge_sets[Val(edge_set_name)].adjacency
      node_set == graph.node_sets[adjacency.node_set_name[node_tag]]
      total_node_count == total_size(node_set)
  IN Finish(ApplyReduceOp(unsorted_reduce_op.ret, edge_value.ret,
                          adjacency.indices[node_tag], total_node_count),
            edge_value, unsorted_reduce_op.ret)

\* Mutant: the context value is returned as it is, without repeating it.
_broadcast_context_not_repeated(graph, node_or_edge_set, feature_value, feature_name) ==
  LET context_value == resolve_value(graph.context.features, feature_value, feature_name)
  IN IF ~Returned(context_value) THEN context_value
     ELSE Finish(Ok(context_value.ret), context_value, "none")

_broadcast_context(graph, node_or_edge_set, feature_value, feature_name) ==
  LET context_value == resolve_value(graph.context.features, feature_value, feature_name)
  IN IF ~Returned(context_value) THEN context_value
     ELSE Finish(Ok(utils_repeat(context_value.ret, node_or_edge_set.sizes)),
                 context_value, "none")

\* Mutant: the number of segments is the outer dimension of the value (the
\* number of items), not that of sizes (the number of components).
_pool_to_context_segment_per_item(registry, graph, node_or_edge_set, reduce_type, feature_value, feature_name) ==
  LET value == resolve_value(node_or_edge_set.features, feature_value, feature_name)
  IN IF ~Returned(value) THEN value ELSE
  LET sizes == node_or_edge_set.sizes
      unsorted_reduce_op == _resolve_reduce_op(registry, reduce_type)
  IN IF ~Returned(unsorted_reduce_op) THEN unsorted_reduce_op
     ELSE Finish(ApplyReduceOp(unsorted_reduce_op.ret, value.ret,
                               row_lengths_to_row_ids(sizes), outer_dimension_size(value.ret)),
                 value, unsorted_reduce_op.ret)

_pool_to_context(registry, graph, node_or_edge_set, reduce_type, feature_value, feature_name) ==
  LET value == resolve_value(node_or_edge_set.features, feature_value, feature_name)
  IN IF ~Returned(value) THEN value ELSE
  LET sizes == node_or_edge_set.sizes
      unsorted_reduce_op == _resolve_reduce_op(registry, reduce_type)
  IN IF ~Returned(unsorted_reduce_op) THEN unsorted_reduce_op
     ELSE Finish(ApplyReduceOp(unsorted_reduce_op.ret, value.ret,
                               row_lengths_to_row_ids(sizes), outer_dimension_size(sizes)),
                 value, unsorted_reduce_op.ret)

broadcast_context_to_nodes(graph, node_set_name, feature_value, feature_name) ==
  IF ~HasSet(graph.node_sets, node_set_name) THEN Raise("KeyError", "node_sets")
  ELSE _broadcast_context(graph, graph.node_sets[Val(node_set_name)],
                          feature_value, feature_name)

\* Mutant: the context is broadcast to the node set at SOURCE of the edge set.
broadcast_context_to_edges_source_nodes(graph, edge_set_name, feature_value, feature_name) ==
  IF ~HasSet(graph.edge_sets, edge_set_name) THEN Raise("KeyError", "edge_sets")
  ELSE _broadcast_context(graph,
                          graph.node_sets[graph.edge_sets[Val(edge_set_name)].adjacency.node_set_name[SOURCE]],
                          feature_value, feature_name)

broadcast_context_to_edges(graph, edge_set_name, feature_value, feature_name) ==
  IF ~HasSet(graph.edge_sets, edge_set_name) THEN Raise("KeyError", "edge_sets")
  ELSE _broadcast_context(graph, graph.edge_sets[Val(edge_set_name)],
                          feature_value, feature_name)

pool_nodes_to_context(registry, graph, node_set_name, reduce_type_arg, feature_value, feature_name) ==
  IF ~HasSet(graph.node_sets, node_set_name) THEN Raise("KeyError", "node_sets")
  ELSE _pool_to_context(registry, graph, graph.node_sets[Val(node_set_name)],
                        Default(reduce_type_arg, "sum"), feature_value, feature_name)

pool_edges_to_context(registry, graph, edge_set_name, reduce_type_arg, feature_value, feature_name) ==
  IF ~HasSet(graph.edge_sets, edge_set_name) THEN Raise("KeyError", "edge_sets")
  ELSE _pool_to_context(registry, graph, graph.edge_sets[Val(edge_set_name)],
                        Default(reduce_type_arg, "sum"), feature_value, feature_name)

\* Mutant: for a tag other than CONTEXT, "and" in place of "or".
_validate_names_and_tag_and(tag, edge_set_name, node_set_name) ==
  IF tag = CONTEXT
  THEN LET num_names == (IF edge_set_name = None THEN 1 ELSE 0)
                        + (IF node_set_name = None THEN 1 ELSE 0)
       IN IF num_names # 1
          THEN Raise("ValueError",
                     "With tag CONTEXT, must pass exactly 1 of edge_set_name, node_set_name; got "
                       \o ToString(num_names) \o ".")
          ELSE Ok(None)
  ELSE IF edge_set_name = None /\ node_set_name # None
       THEN Raise("ValueError",
                  "Must pass edge_set_name but not node_set_name for a tag other than CONTEXT.")
       ELSE Ok(None)

_validate_names_and_tag(tag, edge_set_name, node_set_name) ==
  IF tag = CONTEXT
  THEN LET num_names == (IF edge_set_name = None THEN 1 ELSE 0)
                        + (IF node_set_name = None THEN 1 ELSE 0)
       IN IF num_names # 1
          THEN Raise("ValueError",
                     "With tag CONTEXT, must pass exactly 1 of edge_set_name, node_set_name; got "
                       \o ToString(num_names) \o ".")
          ELSE Ok(None)
  ELSE IF edge_set_name = None \/ node_set_name # None
       THEN Raise("ValueError",
                  "Must pass edge_set_name but not node_set_name for a tag other than CONTEXT.")
       ELSE Ok(None)

\* The outcome o of the underlying function fn, called with set_name.
Via(fn, set_name, o) == [o EXCEPT !.via = [fn |-> fn, set_name |-> set_name]]

\* Mutant: with tag CONTEXT, the test of node_set_name is inverted.
broadcast_inverted(graph, from_tag, edge_set_name, node_set_name, feature_value, feature_name) ==
  LET valid == _validate_names_and_tag(from_tag, edge_set_name, node_set_name) IN
  IF ~Returned(valid) THEN valid
  ELSE IF from_tag = CONTEXT
  THEN IF node_set_name = None
       THEN Via("broadcast_context_to_nodes", node_set_name,
                broadcast_context_to_nodes(graph, node_set_name, feature_value, feature_name))
       ELSE Via("broadcast_context_to_edges", edge_set_name,
                broadcast_context_to_edges(graph, edge_set_name, feature_value, feature_name))
  ELSE Via("broadcast_node_to_edges", edge_set_name,
           broadcast_node_to_edges(graph, edge_set_name, from_tag,
                                   feature_value, feature_name))

broadcast(graph, from_tag, edge_set_name, node_set_name, feature_value, feature_name) ==
  LET valid == _validate_names_and_tag(from_tag, edge_set_name, node_set_name) IN
  IF ~Returned(valid) THEN valid
  ELSE IF from_tag = CONTEXT
  THEN IF node_set_name # None
       THEN Via("broadcast_context_to_nodes", node_set_name,
                broadcast_context_to_nodes(graph, node_set_name, feature_value, feature_name))
       ELSE Via("broadcast_context_to_edges", edge_set_name,
                broadcast_context_to_edges(graph, edge_set_name, feature_value, feature_name))
  ELSE Via("broadcast_node_to_edges", edge_set_name,
           broadcast_node_to_edges(graph, edge_set_name, from_tag,
                                   feature_value, feature_name))

\* Mutant: reduce_type is not passed on, the underlying function takes its default.
pool_drops_reduce_type(registry, graph, to_tag, edge_set_name, node_set_name, reduce_type_arg, feature_value, feature_name) ==
  LET valid == _validate_names_and_tag(to_tag, edge_set_name, node_set_name) IN
  IF ~Returned(valid) THEN valid
  ELSE IF to_tag = CONTEXT
  THEN IF node_set_name # None
       THEN Via("pool_nodes_to_context", node_set_name,
                pool_nodes_to_context(registry, graph, node_set_name, Omitted,
                                      feature_value, feature_name))
       ELSE Via("pool_edges_to_context", edge_set_name,
                pool_edges_to_context(registry, graph, edge_set_name, Omitted,
                                      feature_value, feature_name))
  ELSE Via("pool_edges_to_node", edge_set_name,
           pool_edges_to_node(registry, graph, edge_set_name, to_tag, Omitted,
                              feature_value, feature_name))

pool(registry, graph, to_tag, edge_set_name, node_set_name, reduce_type_arg, feature_value, feature_name) ==
  LET reduce_type == Default(reduce_type_arg, "sum")
      valid == _validate_names_and_tag(to_tag, edge_set_name, node_set_name)
  IN
  IF ~Returned(valid) THEN valid
  ELSE IF to_tag = CONTEXT
  THEN IF node_set_name # None
       THEN Via("pool_nodes_to_context", node_set_name,
                pool_nodes_to_context(registry, graph, node_set_name, reduce_type,
                                      feature_value, feature_name))
       ELSE Via("pool_edges_to_context", edge_set_name,
                pool_edges_to_context(registry, graph, edge_set_name, reduce_type,
                                      feature_value, feature_name))
  ELSE Via("pool_edges_to_node", edge_set_name,
           pool_edges_to_node(registry, graph, edge_set_name, to_tag, reduce_type,
                              feature_value, feature_name))

is_dense_tensor(value_spec) == value_spec = "Tensor"

is_ragged_tensor(value_spec) == value_spec = "RaggedTensor"

\* Mutant: the index vector of the gather is the shuffled row ids, not their
\* argsort.
_shuffle_without_argsort(feature_value, value_spec) ==
  IF is_dense_tensor(value_spec)
  THEN {Ok(v) : v \in tf_random_shuffle(feature_value)}
  ELSE IF is_ragged_tensor(value_spec)
  THEN LET values == feature_value.values
           new_values(p) == tf_gather(values, p)
       IN {IF Returned(new_values(p))
           THEN Ok(with_values(feature_value, new_values(p).ret))
           ELSE new_values(p) :
             p \in tf_random_shuffle(value_rowids(feature_value))}
  ELSE {Raise("ValueError",
              "Operation is currently supported only for dense or ragged tensors")}

\* The outcomes of _shuffle(feature_name), the function local to
\* _shuffle_features, for a feature value of the kind value_spec.
_shuffle(feature_value, value_spec) ==
  IF is_dense_tensor(value_spec)
  THEN {Ok(v) : v \in tf_random_shuffle(feature_value)}
  ELSE IF is_ragged_tensor(value_spec)
  THEN LET values == feature_value.values
           new_values(p) == tf_gather(values, p)
       IN {IF Returned(new_values(p))
           THEN Ok(with_values(feature_value, new_values(p).ret))
           ELSE new_values(p) :
             p \in UNION {tf_argsort(shuffled_value_rowids) :
                            shuffled_value_rowids \in tf_random_shuffle(value_rowids(feature_value))}}
  ELSE {Raise("ValueError",
              "Operation is currently supported only for dense or ragged tensors")}

\* The mappings from every name to one of the values of that name.
RECURSIVE Mappings(_, _)
Mappings(values, names) ==
  IF names = {} THEN {[n \in {} |-> n]}
  ELSE LET name == CHOOSE n \in names : TRUE
       IN {[n \in names |-> IF n = name THEN v ELSE m[n]] :
             m \in Mappings(values, names \ {name}), v \in values[name]}

\* The exceptions among the outcomes of each name.
Raised(outcomes) ==
  UNION {{o \in outcomes[n] : ~Returned(o)} : n \in DOMAIN outcomes}

\* The values returned among the outcomes of each name.
Rets(outcomes) == [n \in DOMAIN outcomes |-> {o.ret : o \in outcomes[n]}]

\* Mutant: only the dense features are in the mapping returned.
_shuffle_features_dense_only(features, features_spec) ==
  LET dense == {f \in DOMAIN features : is_dense_tensor(features_spec[f])}
      shuffled == [f \in dense |-> _shuffle(features[f], features_spec[f])]
  IN {Ok(m) : m \in Mappings(Rets(shuffled), dense)}

\* The outcomes of _shuffle_features: the mappings from every feature name to
\* a shuffled value, or the exception that _shuffle raises.
_shuffle_features(features, features_spec) ==
  LET shuffled == [f \in DOMAIN features |-> _shuffle(features[f], features_spec[f])]
  IN IF Raised(shuffled) # {} THEN Raised(shuffled)
     ELSE {Ok(m) : m \in Mappings(Rets(shuffled), DOMAIN features)}

\* The outcomes of shuffle_scalar_components.
shuffle_scalar_components(graph) ==
  LET context == _shuffle_features(graph.context.features, graph.context.features_spec)
      node_sets == [n \in DOMAIN graph.node_sets |->
                      _shuffle_features(graph.node_sets[n].features,
                                        graph.node_sets[n].features_spec)]
      edge_sets == [e \in DOMAIN graph.edge_sets |->
                      _shuffle_features(graph.edge_sets[e].features,
                                        graph.edge_sets[e].features_spec)]
  IN IF \E o \in context : ~Returned(o) THEN {o \in context : ~Returned(o)}
     ELSE IF Raised(node_sets) # {} THEN Raised(node_sets)
     ELSE IF Raised(edge_sets) # {} THEN Raised(edge_sets)
     ELSE {Ok(replace_features(graph, c.ret, ns, es)) :
             c \in context,
             ns \in Mappings(Rets(node_sets), DOMAIN graph.node_sets),
             es \in Mappings(Rets(edge_sets), DOMAIN graph.edge_sets)}

\* Mutant: the sizes are not asserted to be positive.
gather_first_node_unchecked(graph, node_set_name, feature_value, feature_name) ==
  IF ~HasSet(graph.node_sets, node_set_name) THEN Raise("KeyError", "node_sets") ELSE
  LET node_set == graph.node_sets[Val(node_set_name)]
      node_value == resolve_value(node_set.features, feature_value, feature_name)
  IN IF ~Returned(node_value) THEN node_value ELSE
  LET sizes == node_set.sizes
      components_starts == tf_cumsum_exclusive(sizes)
  IN Finish(tf_gather(node_value.ret, components_starts), node_value, "none")

gather_first_node(graph, node_set_name, feature_value, feature_name) ==
  IF ~HasSet(graph.node_sets, node_set_name) THEN Raise("KeyError", "node_sets") ELSE
  LET node_set == graph.node_sets[Val(node_set_name)]
      node_value == resolve_value(node_set.features, feature_value, feature_name)
  IN IF ~Returned(node_value) THEN node_value ELSE
  LET sizes == node_set.sizes IN
  IF \E c \in 1..Len(sizes) : sizes[c] <= 0
  THEN Raise("InvalidArgumentError",
             "called for a graph in which one or more components contain no nodes.")
  ELSE LET components_starts == tf_cumsum_exclusive(sizes)
       IN Finish(tf_gather(node_value.ret, components_starts), node_value, "none")

----------------------------------------------------------------------------
(* Inputs of the calls. *)

NoArgs ==
  [tag |-> "-", edge_set_name |-> None, node_set_name |-> None, reduce_type |-> "-",
   feature_value |-> None, feature_name |-> None,
   unsorted_reduce_op |-> "-", allow_override |-> FALSE]

\* Feature values of length n: 1, 2, 3, ... and 5, 3, 1, -1, ...
Values(n) == {[i \in 1..n |-> i], [i \in 1..n |-> 7 - 2 * i]}

\* feature_value / feature_name pairs: neither, name only, value only, both.
FeatureArgs(n) ==
  {<<fv, fn>> : fv \in {None} \cup {Some(v) : v \in Values(n)}, fn \in {None, Some("h")}}

\* The arguments with exactly one of feature_value and feature_name.
ValidFeatureArgs(n) ==
  {a \in FeatureArgs(n) : (a[1] = None) # (a[2] = None)}

SetNames(sets) == {Some(n) : n \in DOMAIN sets}

OptSetNames(sets) == {None} \cup SetNames(sets)

ReduceTypes == {Omitted, "sum", "mean", "max", "min", "prod", "custom", "bogus"}

RegisterNames == {"sum", "max", "custom"}

RegisterOps == {"unsorted_segment_sum", "unsorted_segment_max", NotCallable}

NodeSetOfTag(graph, edge_set_name, node_tag) ==
  graph.node_sets[graph.edge_sets[Val(edge_set_name)].adjacency.node_set_name[node_tag]]

\* Length of a well-shaped feature_value for broadcast(): the size of the
\* context, or of the node set at from_tag of the edge set.
BroadcastLen(graph, from_tag, edge_set_name) ==
  IF from_tag = CONTEXT THEN Len(graph.context.sizes)
  ELSE IF edge_set_name = None THEN 0
  ELSE total_size(NodeSetOfTag(graph, edge_set_name, from_tag))

\* Length of a well-shaped feature_value for pool(): the size of the node set
\* or edge set that is pooled.
PoolLen(graph, to_tag, edge_set_name, node_set_name) ==
  IF to_tag = CONTEXT /\ node_set_name # None
  THEN total_size(graph.node_sets[Val(node_set_name)])
  ELSE IF edge_set_name = None THEN 0
  ELSE total_size(graph.edge_sets[Val(edge_set_name)])

----------------------------------------------------------------------------
(* The calls. *)

\* The caller is between two calls.
NoCall == [fn |-> "none", args |-> NoArgs]

Idle == call = NoCall

\* Mutant: a call with a reduce type that is not registered registers the sum
\* under that name.
Stateless_registers(fn, args, out) ==
  /\ Idle
  /\ call' = [fn |-> fn, args |-> args]
  /\ result' = out
  /\ _REGISTERED_REDUCE_OPS' =
       LET reduce_type == Default(args.reduce_type, "sum")
       IN IF reduce_type = "-" \/ DictHas(_REGISTERED_REDUCE_OPS, reduce_type)
          THEN _REGISTERED_REDUCE_OPS
          ELSE DictSet(_REGISTERED_REDUCE_OPS, reduce_type, "unsorted_segment_sum")
  /\ UNCHANGED <<graph_tensor, last_registered, kernel, kernel_results>>

Stateless(fn, args, out) ==
  /\ Idle
  /\ call' = [fn |-> fn, args |-> args]
  /\ result' = out
  /\ UNCHANGED <<_REGISTERED_REDUCE_OPS, graph_tensor, last_registered, kernel, kernel_results>>

\* The caller takes the outcome of the call and goes on.
Continue ==
  /\ call # NoCall
  /\ call' = NoCall
  /\ result' = Ok(None)
  /\ UNCHANGED <<_REGISTERED_REDUCE_OPS, graph_tensor, last_registered, kernel, kernel_results>>

RegisterReduceOperation(reduce_type, unsorted_reduce_op, allow_override) ==
  LET r == register_reduce_operation(_REGISTERED_REDUCE_OPS, reduce_type,
                                     unsorted_reduce_op, allow_override)
  IN /\ Idle
     /\ _REGISTERED_REDUCE_OPS' = r.registry
     /\ last_registered' = IF Returned(r.out)
                            THEN [n \in DOMAIN last_registered \cup {reduce_type} |->
                                    IF n = reduce_type THEN unsorted_reduce_op
                                    ELSE last_registered[n]]
                            ELSE last_registered
     /\ call' = [fn |-> "register_reduce_operation",
                 args |-> [NoArgs EXCEPT !.reduce_type = reduce_type,
                                         !.unsorted_reduce_op = unsorted_reduce_op,
                                         !.allow_override = allow_override]]
     /\ result' = r.out
     /\ UNCHANGED <<graph_tensor, kernel, kernel_results>>

GetRegisteredReduceOperationNames ==
  Stateless("get_registered_reduce_operation_names", NoArgs,
            get_registered_reduce_operation_names(_REGISTERED_REDUCE_OPS))

BroadcastNodeToEdges(edge_set_name, node_tag, fv, fn) ==
  Stateless("broadcast_node_to_edges",
            [NoArgs EXCEPT !.edge_set_name = edge_set_name, !.tag = node_tag,
                           !.feature_value = fv, !.feature_name = fn],
            broadcast_node_to_edges(graph_tensor, edge_set_name, node_tag, fv, fn))

PoolEdgesToNode(edge_set_name, node_tag, reduce_type, fv, fn) ==
  Stateless("pool_edges_to_node",
            [NoArgs EXCEPT !.edge_set_name = edge_set_name, !.tag = node_tag,
                           !.reduce_type = reduce_type,
                           !.feature_value = fv, !.feature_name = fn],
            pool_edges_to_node(_REGISTERED_REDUCE_OPS, graph_tensor, edge_set_name,
                               node_tag, reduce_type, fv, fn))

BroadcastContextToNodes(node_set_name, fv, fn) ==
  Stateless("broadcast_context_to_nodes",
            [NoArgs EXCEPT !.node_set_name = node_set_name,
                           !.feature_value = fv, !.feature_name = fn],
            broadcast_context_to_nodes(graph_tensor, node_set_name, fv, fn))

BroadcastContextToEdges(edge_set_name, fv, fn) ==
  Stateless("broadcast_context_to_edges",
            [NoArgs EXCEPT !.edge_set_name = edge_set_name,
                           !.feature_value = fv, !.feature_name = fn],
            broadcast_context_to_edges(graph_tensor, edge_set_name, fv, fn))

PoolNodesToContext(node_set_name, reduce_type, fv, fn) ==
  Stateless("pool_nodes_to_context",
            [NoArgs EXCEPT !.node_set_name = node_set_name, !.reduce_type = reduce_type,
                           !.feature_value = fv, !.feature_name = fn],
            pool_nodes_to_context(_REGISTERED_REDUCE_OPS, graph_tensor, node_set_name,
                                  reduce_type, fv, fn))

PoolEdgesToContext(edge_set_name, reduce_type, fv, fn) ==
  Stateless("pool_edges_to_context",
            [NoArgs EXCEPT !.edge_set_name = edge_set_name, !.reduce_type = reduce_type,
                           !.feature_value = fv, !.feature_name = fn],
            pool_edges_to_context(_REGISTERED_REDUCE_OPS, graph_tensor, edge_set_name,
                                  reduce_type, fv, fn))

Broadcast(from_tag, edge_set_name, node_set_name, fv, fn) ==
  Stateless("broadcast",
            [NoArgs EXCEPT !.tag = from_tag, !.edge_set_name = edge_set_name,
                           !.node_set_name = node_set_name,
                           !.feature_value = fv, !.feature_name = fn],
            broadcast(graph_tensor, from_tag, edge_set_name, node_set_name, fv, fn))

Pool(to_tag, edge_set_name, node_set_name, reduce_type, fv, fn) ==
  Stateless("pool",
            [NoArgs EXCEPT !.tag = to_tag, !.edge_set_name = edge_set_name,
                           !.node_set_name = node_set_name, !.reduce_type = reduce_type,
                           !.feature_value = fv, !.feature_name = fn],
            pool(_REGISTERED_REDUCE_OPS, graph_tensor, to_tag, edge_set_name,
                 node_set_name, reduce_type, fv, fn))

GatherFirstNode(node_set_name, fv, fn) ==
  Stateless("gather_first_node",
            [NoArgs EXCEPT !.node_set_name = node_set_name,
                           !.feature_value = fv, !.feature_name = fn],
            gather_first_node(graph_tensor, node_set_name, fv, fn))

\* shuffle_scalar_components returns out, one of its outcomes.
ShuffleScalarComponents(out) ==
  Stateless("shuffle_scalar_components", NoArgs, out)

\* pool_edges_to_node(reduce_type='sum',
\*                    feature_value=broadcast_node_to_edges(feature_value=x))
BroadcastThenPool(edge_set_name, node_tag, x) ==
  LET b == broadcast_node_to_edges(graph_tensor, edge_set_name, node_tag, Some(x), None)
  IN Stateless("pool_edges_to_node(broadcast_node_to_edges)",
               [NoArgs EXCEPT !.edge_set_name = edge_set_name, !.tag = node_tag,
                              !.reduce_type = "sum", !.feature_value = Some(x)],
               IF ~Returned(b) THEN b
               ELSE pool_edges_to_node(_REGISTERED_REDUCE_OPS, graph_tensor, edge_set_name,
                                       node_tag, "sum", Some(b.ret), None))

----------------------------------------------------------------------------
(* Registry, argument validation and dispatch: every call, with valid and  *)
(* invalid arguments, on two example graph tensors.                        *)

ExampleGraphs ==
  { [context |-> Context(2, 40),
     node_sets |-> [n \in {"a", "b"} |->
                      IF n = "a" THEN NodeSet(<<1, 2>>, 10) ELSE NodeSet(<<2, 2>>, 20)],
     edge_sets |-> [e \in {"e"} |->
                      EdgeSet(<<3, 2>>, 30, "a", "b", <<0, 0, 0, 2, 1>>, <<1, 0, 1, 3, 3>>)]],
    [context |-> Context(3, 40),
     node_sets |-> [n \in {"a", "b"} |->
                      IF n = "a" THEN NodeSet(<<1, 0, 1>>, 10) ELSE NodeSet(<<1, 1, 1>>, 20)],
     edge_sets |-> [e \in {"e"} |->
                      EdgeSet(<<0, 1, 0>>, 30, "a", "b", <<1>>, <<2>>)]] }

\* The operations registered when the module is loaded.
LoadTime == [i \in {e.key : e \in {InitialReduceOps[j] : j \in 1..Len(InitialReduceOps)}} |->
               DictGet(InitialReduceOps, i)]

Init ==
  /\ _REGISTERED_REDUCE_OPS = InitialReduceOps
  /\ graph_tensor \in ExampleGraphs
  /\ call = NoCall
  /\ result = Ok(None)
  /\ last_registered = LoadTime
  /\ kernel = None
  /\ kernel_results = None

Next ==
  \/ Idle /\ \E reduce_type \in RegisterNames, op \in RegisterOps, allow_override \in BOOLEAN :
       RegisterReduceOperation(reduce_type, op, allow_override)
  \/ GetRegisteredReduceOperationNames
  \/ Idle /\ \E e \in SetNames(graph_tensor.edge_sets), t \in NodeTags :
       \E a \in FeatureArgs(total_size(NodeSetOfTag(graph_tensor, e, t))) :
         BroadcastNodeToEdges(e, t, a[1], a[2])
  \/ Idle /\ \E e \in SetNames(graph_tensor.edge_sets), t \in NodeTags, rt \in ReduceTypes :
       \E a \in FeatureArgs(total_size(graph_tensor.edge_sets[Val(e)])) :
         PoolEdgesToNode(e, t, rt, a[1], a[2])
  \/ Idle /\ \E n \in SetNames(graph_tensor.node_sets) :
       \E a \in FeatureArgs(Len(graph_tensor.context.sizes)) :
         BroadcastContextToNodes(n, a[1], a[2])
  \/ Idle /\ \E e \in SetNames(graph_tensor.edge_sets) :
       \E a \in FeatureArgs(Len(graph_tensor.context.sizes)) :
         BroadcastContextToEdges(e, a[1], a[2])
  \/ Idle /\ \E n \in SetNames(graph_tensor.node_sets), rt \in ReduceTypes :
       \E a \in FeatureArgs(total_size(graph_tensor.node_sets[Val(n)])) :
         PoolNodesToContext(n, rt, a[1], a[2])
  \/ Idle /\ \E e \in SetNames(graph_tensor.edge_sets), rt \in ReduceTypes :
       \E a \in FeatureArgs(total_size(graph_tensor.edge_sets[Val(e)])) :
         PoolEdgesToContext(e, rt, a[1], a[2])
  \/ Idle /\ \E t \in Tags, e \in OptSetNames(graph_tensor.edge_sets),
        n \in OptSetNames(graph_tensor.node_sets) :
       \E a \in FeatureArgs(BroadcastLen(graph_tensor, t, e)) :
         Broadcast(t, e, n, a[1], a[2])
  \/ Idle /\ \E t \in Tags, e \in OptSetNames(graph_tensor.edge_sets),
        n \in OptSetNames(graph_tensor.node_sets), rt \in ReduceTypes :
       \E a \in FeatureArgs(PoolLen(graph_tensor, t, e, n)) :
         Pool(t, e, n, rt, a[1], a[2])
  \/ Idle /\ \E n \in SetNames(graph_tensor.node_sets) :
       \E a \in FeatureArgs(total_size(graph_tensor.node_sets[Val(n)])) :
         GatherFirstNode(n, a[1], a[2])
  \/ Idle /\ \E out \in shuffle_scalar_components(graph_tensor) :
       ShuffleScalarComponents(out)
  \/ Continue

Spec == Init /\ [][Next]_vars

----------------------------------------------------------------------------
(* Components: the context and gather functions on graph tensors of 1 to   *)
(* MaxComponents components with 0 to MaxSize nodes each.  A component is  *)
(* a path: its edges run from each of its nodes to the next one.           *)

RegisteredReduceTypes == {"sum", "mean", "max", "min", "prod"}

\* Index of the first item of component c (from 1) in a set with these sizes.
FirstIndex(sizes, c) == SeqSum(SubSeq(sizes, 1, c - 1))

ComponentGraph(node_sizes) ==
  LET edge_sizes == [c \in 1..Len(node_sizes) |->
                       IF node_sizes[c] = 0 THEN 0 ELSE node_sizes[c] - 1]
      component == row_lengths_to_row_ids(edge_sizes)
      source == [e \in 1..SeqSum(edge_sizes) |->
                   FirstIndex(node_sizes, component[e] + 1)
                     + (e - 1 - FirstIndex(edge_sizes, component[e] + 1))]
      target == [e \in 1..SeqSum(edge_sizes) |-> source[e] + 1]
  IN [context |-> Context(Len(node_sizes), 40),
      node_sets |-> [n \in {"nodes"} |-> NodeSet(node_sizes, 10)],
      edge_sets |-> [e \in {"edges"} |->
                       EdgeSet(edge_sizes, 30, "nodes", "nodes", source, target)]]

ComponentGraphs ==
  {ComponentGraph(z) : z \in UNION {[1..n -> 0..MaxSize] : n \in 1..MaxComponents}}

InitComponents ==
  /\ _REGISTERED_REDUCE_OPS = InitialReduceOps
  /\ graph_tensor \in ComponentGraphs
  /\ call = NoCall
  /\ result = Ok(None)
  /\ last_registered = LoadTime
  /\ kernel = None
  /\ kernel_results = None

NextComponents ==
  \/ Idle /\ \E n \in SetNames(graph_tensor.node_sets) :
       \E a \in ValidFeatureArgs(total_size(graph_tensor.node_sets[Val(n)])) :
         GatherFirstNode(n, a[1], a[2])
  \/ Idle /\ \E n \in SetNames(graph_tensor.node_sets) :
       \E a \in ValidFeatureArgs(Len(graph_tensor.context.sizes)) :
         BroadcastContextToNodes(n, a[1], a[2])
  \/ Idle /\ \E e \in SetNames(graph_tensor.edge_sets) :
       \E a \in ValidFeatureArgs(Len(graph_tensor.context.sizes)) :
         BroadcastContextToEdges(e, a[1], a[2])
  \/ Idle /\ \E n \in SetNames(graph_tensor.node_sets), rt \in RegisteredReduceTypes :
       \E a \in ValidFeatureArgs(total_size(graph_tensor.node_sets[Val(n)])) :
         PoolNodesToContext(n, rt, a[1], a[2])
  \/ Idle /\ \E e \in SetNames(graph_tensor.edge_sets), rt \in RegisteredReduceTypes :
       \E a \in ValidFeatureArgs(total_size(graph_tensor.edge_sets[Val(e)])) :
         PoolEdgesToContext(e, rt, a[1], a[2])
  \/ Continue

SpecComponents == InitComponents /\ [][NextComponents]_vars

----------------------------------------------------------------------------
(* Adjacency: the node / edge functions on graph tensors of one component  *)
(* with up to MaxNodes nodes and up to MaxEdges edges.  The edges list     *)
(* their nodes at one tag in every possible way, and at the other tag the  *)
(* node that follows.                                                      *)

AdjacencyGraph(num_nodes, tag, incidence) ==
  LET following == [e \in 1..Len(incidence) |-> (incidence[e] + 1) % num_nodes]
  IN [context |-> Context(1, 40),
      node_sets |-> [n \in {"nodes"} |-> NodeSet(<<num_nodes>>, 10)],
      edge_sets |-> [e \in {"edges"} |->
                       IF tag = SOURCE
                       THEN EdgeSet(<<Len(incidence)>>, 30, "nodes", "nodes",
                                    incidence, following)
                       ELSE EdgeSet(<<Len(incidence)>>, 30, "nodes", "nodes",
                                    following, incidence)]]

AdjacencyGraphs ==
  {AdjacencyGraph(g[1], g[2], g[3]) :
     g \in UNION {{n} \X NodeTags \X [1..e -> 0..(n - 1)] :
                    <<n, e>> \in (0..MaxNodes) \X (0..MaxEdges)}}

InitAdjacency ==
  /\ _REGISTERED_REDUCE_OPS = InitialReduceOps
  /\ graph_tensor \in AdjacencyGraphs
  /\ call = NoCall
  /\ result = Ok(None)
  /\ last_registered = LoadTime
  /\ kernel = None
  /\ kernel_results = None

NextAdjacency ==
  \/ Idle /\ \E e \in SetNames(graph_tensor.edge_sets), t \in NodeTags :
       \E a \in ValidFeatureArgs(total_size(NodeSetOfTag(graph_tensor, e, t))) :
         BroadcastNodeToEdges(e, t, a[1], a[2])
  \/ Idle /\ \E e \in SetNames(graph_tensor.edge_sets), t \in NodeTags,
                rt \in RegisteredReduceTypes :
       \E a \in ValidFeatureArgs(total_size(graph_tensor.edge_sets[Val(e)])) :
         PoolEdgesToNode(e, t, rt, a[1], a[2])
  \/ Idle /\ \E e \in SetNames(graph_tensor.edge_sets), t \in NodeTags :
       \E x \in Values(total_size(NodeSetOfTag(graph_tensor, e, t))) :
         BroadcastThenPool(e, t, x)
  \/ Continue

SpecAdjacency == InitAdjacency /\ [][NextAdjacency]_vars

----------------------------------------------------------------------------
(* Shuffle: shuffle_scalar_components on graph tensors of up to            *)
(* MaxShuffledComponents components and MaxShuffled nodes, the components  *)
(* being paths.  The feature of the node set or of the edge set is ragged, *)
(* with up to MaxShuffled flat values; the other features are dense.       *)

\* The sequences of n naturals whose sum is at most max.
SizesUpTo(n, max) == {z \in [1..n -> 0..max] : SeqSum(z) <= max}

ShuffleGraph(node_sizes, ragged_at, row_lengths) ==
  LET graph == ComponentGraph(node_sizes)
      ragged == RaggedTensor(row_lengths, Ramp(50, SeqSum(row_lengths)))
      Ragged(set) == [set EXCEPT !.features = [f \in {"h"} |-> ragged],
                                 !.features_spec = [f \in {"h"} |-> "RaggedTensor"]]
  IN IF ragged_at = "nodes"
     THEN [graph EXCEPT !.node_sets = [n \in {"nodes"} |-> Ragged(graph.node_sets[n])]]
     ELSE [graph EXCEPT !.edge_sets = [e \in {"edges"} |-> Ragged(graph.edge_sets[e])]]

\* The graph tensors whose ragged feature is that of the set ragged_at.
ShuffleGraphs(ragged_at) ==
  UNION {UNION {{ShuffleGraph(z, ragged_at, r) :
                   r \in SizesUpTo(total_size(IF ragged_at = "nodes"
                                              THEN ComponentGraph(z).node_sets["nodes"]
                                              ELSE ComponentGraph(z).edge_sets["edges"]),
                                   MaxShuffled)} :
                z \in SizesUpTo(n, MaxShuffled)} :
           n \in 1..MaxShuffledComponents}

InitShuffle ==
  /\ _REGISTERED_REDUCE_OPS = InitialReduceOps
  /\ \E ragged_at \in {"nodes", "edges"} : graph_tensor \in ShuffleGraphs(ragged_at)
  /\ call = NoCall
  /\ result = Ok(None)
  /\ last_registered = LoadTime
  /\ kernel = None
  /\ kernel_results = None

NextShuffle ==
  \/ Idle /\ \E out \in shuffle_scalar_components(graph_tensor) :
       ShuffleScalarComponents(out)
  \/ Continue

SpecShuffle == InitShuffle /\ [][NextShuffle]_vars

----------------------------------------------------------------------------
(* Kernel: GradientBasedTrajectoryLengthAdaptation.  A kernel is           *)
(* constructed around an inner kernel with its num_adaptation_steps; its   *)
(* caller takes the kernel results of bootstrap_results and passes to each *)
(* one_step the results of the call before.  Lengths are whole multiples   *)
(* of the step size; the gradient of the criterion, which depends on the   *)
(* sampler's random proposal, is an input of one_step.                     *)
(* A kernel that wraps kernels is the sequence of their classes, the       *)
(* outermost first.                                                        *)

HamiltonianMonteCarlo == <<"HamiltonianMonteCarlo">>

TransformedTransitionKernel(inner_kernel) == <<"TransformedTransitionKernel">> \o inner_kernel

DualAveragingStepSizeAdaptation(inner_kernel) == <<"DualAveragingStepSizeAdaptation">> \o inner_kernel

\* Mutant: only the class of the inner kernel itself is looked at.
_forbid_inner_transformed_kernel_outermost(inner_kernel) ==
  IF Head(inner_kernel) = "TransformedTransitionKernel"
  THEN Raise("ValueError", "The inner kernel cannot contain a TransformedTransitionKernel.")
  ELSE Ok(None)

\* The inner kernel and every kernel inside it is looked at.
_forbid_inner_transformed_kernel(inner_kernel) ==
  IF \E i \in 1..Len(inner_kernel) : inner_kernel[i] = "TransformedTransitionKernel"
  THEN Raise("ValueError", "The inner kernel cannot contain a TransformedTransitionKernel.")
  ELSE Ok(None)

\* GradientBasedTrajectoryLengthAdaptation(inner_kernel, num_adaptation_steps,
\*   experimental_reduce_chain_axis_names=...); outer_kernels are the kernels
\* that later wrap the kernel constructed.
GradientBasedTrajectoryLengthAdaptation(inner_kernel, num_adaptation_steps, experimental_reduce_chain_axis_names) ==
  LET forbidden == _forbid_inner_transformed_kernel(inner_kernel)
  IN IF Returned(forbidden)
     THEN Ok([outer_kernels |-> <<>>,
              inner_kernel |-> inner_kernel,
              num_adaptation_steps |-> num_adaptation_steps,
              experimental_reduce_chain_axis_names |-> experimental_reduce_chain_axis_names])
     ELSE forbidden

\* kernel.bootstrap_results(state)
bootstrap_results(k) ==
  [step |-> 0,
   max_trajectory_length |-> 1,
   averaged_sq_grad |-> 0,
   averaged_max_trajectory_length |-> 0]

Clip(x, lo, hi) == IF x < lo THEN lo ELSE IF x > hi THEN hi ELSE x

\* Mutant: the step at which the adaptation ends is itself an adaptation step.
one_step_adapts_at_horizon(k, previous_kernel_results, trajectory_grad) ==
  LET adapt == previous_kernel_results.step <= k.num_adaptation_steps
      max_trajectory_length ==
        Clip(previous_kernel_results.max_trajectory_length + trajectory_grad,
             1, MaxTrajectoryLength)
  IN [step |-> previous_kernel_results.step + 1,
      max_trajectory_length |->
        IF adapt THEN max_trajectory_length
        ELSE previous_kernel_results.max_trajectory_length,
      averaged_sq_grad |->
        IF adapt
        THEN previous_kernel_results.averaged_sq_grad + trajectory_grad * trajectory_grad
        ELSE previous_kernel_results.averaged_sq_grad,
      averaged_max_trajectory_length |->
        IF adapt
        THEN previous_kernel_results.averaged_max_trajectory_length + max_trajectory_length
        ELSE previous_kernel_results.averaged_max_trajectory_length]

\* The kernel results of kernel.one_step(state, previous_kernel_results, seed):
\* while step < num_adaptation_steps the accumulators take the gradient in
\* and the trajectory length moves along it; from then on they are kept.
one_step(k, previous_kernel_results, trajectory_grad) ==
  LET adapt == previous_kernel_results.step < k.num_adaptation_steps
      max_trajectory_length ==
        Clip(previous_kernel_results.max_trajectory_length + trajectory_grad,
             1, MaxTrajectoryLength)
  IN [step |-> previous_kernel_results.step + 1,
      max_trajectory_length |->
        IF adapt THEN max_trajectory_length
        ELSE previous_kernel_results.max_trajectory_length,
      averaged_sq_grad |->
        IF adapt
        THEN previous_kernel_results.averaged_sq_grad + trajectory_grad * trajectory_grad
        ELSE previous_kernel_results.averaged_sq_grad,
      averaged_max_trajectory_length |->
        IF adapt
        THEN previous_kernel_results.averaged_max_trajectory_length + max_trajectory_length
        ELSE previous_kernel_results.averaged_max_trajectory_length]

TrajectoryGrads == {-1, 1, 2}

\* The kernels that wrap an inner kernel.
WrapperClasses == {"TransformedTransitionKernel", "DualAveragingStepSizeAdaptation"}

\* The inner kernels: a HamiltonianMonteCarlo inside up to MaxNesting wrappers.
InnerKernels ==
  UNION {{w \o HamiltonianMonteCarlo : w \in [1..n -> WrapperClasses]} : n \in 0..MaxNesting}

\* kernel = GradientBasedTrajectoryLengthAdaptation(inner_kernel,
\*            num_adaptation_steps=...): the caller has the kernel if the
\* constructor returns.
Construct(inner_kernel, num_adaptation_steps, experimental_reduce_chain_axis_names) ==
  LET r == GradientBasedTrajectoryLengthAdaptation(inner_kernel, num_adaptation_steps,
                                                   experimental_reduce_chain_axis_names)
  IN /\ kernel = None
     /\ call' = [fn |-> "GradientBasedTrajectoryLengthAdaptation",
                 args |-> [inner_kernel |-> inner_kernel,
                           num_adaptation_steps |-> num_adaptation_steps,
                           experimental_reduce_chain_axis_names |->
                             experimental_reduce_chain_axis_names]]
     /\ result' = IF Returned(r) THEN Ok(None) ELSE r
     /\ kernel' = IF Returned(r) THEN Some(r.ret) ELSE None
     /\ UNCHANGED <<_REGISTERED_REDUCE_OPS, graph_tensor, last_registered, kernel_results>>

\* kernel = TransformedTransitionKernel(kernel, bijector), or
\* kernel = DualAveragingStepSizeAdaptation(kernel, ...), before the kernel runs.
Wrap(class) ==
  /\ kernel # None
  /\ kernel_results = None
  /\ Len(Val(kernel).outer_kernels) < MaxNesting
  /\ call' = [fn |-> class,
              args |-> [inner_kernel |-> Val(kernel).outer_kernels
                                           \o <<"GradientBasedTrajectoryLengthAdaptation">>
                                           \o Val(kernel).inner_kernel]]
  /\ result' = Ok(None)
  /\ kernel' = Some([Val(kernel) EXCEPT !.outer_kernels = <<class>> \o @])
  /\ UNCHANGED <<_REGISTERED_REDUCE_OPS, graph_tensor, last_registered, kernel_results>>

BootstrapResults ==
  /\ kernel # None
  /\ kernel_results = None
  /\ kernel_results' = Some(bootstrap_results(Val(kernel)))
  /\ UNCHANGED <<_REGISTERED_REDUCE_OPS, graph_tensor, call, result, last_registered, kernel>>

OneStep(trajectory_grad) ==
  /\ kernel # None
  /\ kernel_results # None
  /\ Val(kernel_results).step < MaxSteps
  /\ kernel_results' = Some(one_step(Val(kernel), Val(kernel_results), trajectory_grad))
  /\ UNCHANGED <<_REGISTERED_REDUCE_OPS, graph_tensor, call, result, last_registered, kernel>>

InitKernel ==
  /\ _REGISTERED_REDUCE_OPS = InitialReduceOps
  /\ graph_tensor = ComponentGraph(<<1>>)
  /\ call = NoCall
  /\ result = Ok(None)
  /\ last_registered = LoadTime
  /\ kernel = None
  /\ kernel_results = None

NextKernel ==
  \/ \E inner_kernel \in InnerKernels, num_adaptation_steps \in 0..MaxAdaptationSteps :
       Construct(inner_kernel, num_adaptation_steps, None)
  \/ \E class \in WrapperClasses : Wrap(class)
  \/ BootstrapResults
  \/ \E trajectory_grad \in TrajectoryGrads : OneStep(trajectory_grad)

SpecKernel == InitKernel /\ [][NextKernel]_vars

----------------------------------------------------------------------------
(* The kernel with its chains sharded across replicas.  Every replica runs *)
(* bootstrap_results and one_step on its own chains with its own seed, so  *)
(* that each computes its own gradient of the criterion; kernel_results    *)
(* holds the kernel results of every replica.  The kernel names the axis   *)
(* to reduce over, and the reduction across the replicas (psum) is the     *)
(* strategy's.                                                             *)

\* Mutant: every replica keeps the gradient of its own chains.
reduce_chain_axis_local(k, trajectory_grads, replica) ==
  trajectory_grads[replica]

\* The gradient that a replica adapts with: the sum over the replicas of the
\* named axis, or its own if the kernel names no axis.
reduce_chain_axis(k, trajectory_grads, replica) ==
  IF k.experimental_reduce_chain_axis_names # None
  THEN SeqSum(trajectory_grads)
  ELSE trajectory_grads[replica]

\* strategy.run(kernel.bootstrap_results) on num_replicas replicas
BootstrapResultsSharded(num_replicas) ==
  /\ kernel # None
  /\ kernel_results = None
  /\ call' = [fn |-> "bootstrap_results", args |-> [num_replicas |-> num_replicas]]
  /\ result' = Ok(None)
  /\ kernel_results' = [replica \in 1..num_replicas |-> bootstrap_results(Val(kernel))]
  /\ UNCHANGED <<_REGISTERED_REDUCE_OPS, graph_tensor, last_registered, kernel>>

\* strategy.run(kernel.one_step): trajectory_grads[replica] is the gradient
\* that the replica computes from its chains and its seed.
OneStepSharded(trajectory_grads) ==
  /\ kernel # None
  /\ kernel_results # None
  /\ Len(trajectory_grads) = Len(kernel_results)
  /\ kernel_results[1].step < MaxShardedSteps
  /\ call' = [fn |-> "one_step", args |-> [trajectory_grads |-> trajectory_grads]]
  /\ result' = Ok(None)
  /\ kernel_results' =
       [replica \in 1..Len(kernel_results) |->
          one_step(Val(kernel), kernel_results[replica],
                   reduce_chain_axis(Val(kernel), trajectory_grads, replica))]
  /\ UNCHANGED <<_REGISTERED_REDUCE_OPS, graph_tensor, last_registered, kernel>>

InitSharded == InitKernel

NextSharded ==
  \/ \E num_adaptation_steps \in 0..MaxAdaptationSteps, axis_names \in {None, Some("chains")} :
       Construct(HamiltonianMonteCarlo, num_adaptation_steps, axis_names)
  \/ \E num_replicas \in 1..MaxReplicas : BootstrapResultsSharded(num_replicas)
  \/ \E num_replicas \in 1..MaxReplicas :
       \E trajectory_grads \in [1..num_replicas -> TrajectoryGrads] :
         OneStepSharded(trajectory_grads)

SpecSharded == InitSharded /\ [][NextSharded]_vars

----------------------------------------------------------------------------
(* Adaptation criteria: chees_criterion and snaper_criterion.  Each takes  *)
(* the acceptance probabilities of the chains, one per chain, and needs at *)
(* least 2 chains to centre the states, unless the caller of               *)
(* snaper_criterion supplies the mean of the states.  A shape known when   *)
(* the graph is built is validated then; a shape known only when the graph *)
(* runs is validated by an assertion that validate_args adds.              *)

Criteria == {"chees_criterion", "snaper_criterion"}

\* The number of chains of acceptance probabilities of the given shape; a
\* scalar is one chain.
num_chains(accept_prob_shape) ==
  LET size == SeqProd(accept_prob_shape)
  IN IF size > 1 THEN size ELSE 1

TooFewChains(fn) == fn \o " requires at least 2 chains."

\* Mutant: only a shape that is known statically is validated.
criterion_static_only(fn, accept_prob_shape, static_shape, validate_args, state_mean) ==
  IF fn = "snaper_criterion" /\ state_mean # None
  THEN Ok(None)
  ELSE IF static_shape /\ num_chains(accept_prob_shape) < 2
       THEN Raise("ValueError", TooFewChains(fn))
       ELSE Ok(None)

\* fn(previous_state, proposed_state, accept_prob, trajectory_length,
\*    validate_args=..., state_mean=...): the outcome of the validation of the
\* number of chains (the value of the criterion is left out).
criterion(fn, accept_prob_shape, static_shape, validate_args, state_mean) ==
  IF fn = "snaper_criterion" /\ state_mean # None
  THEN Ok(None)
  ELSE IF static_shape
       THEN IF num_chains(accept_prob_shape) < 2
            THEN Raise("ValueError", TooFewChains(fn))
            ELSE Ok(None)
       ELSE IF validate_args /\ num_chains(accept_prob_shape) < 2
            THEN Raise("InvalidArgumentError", TooFewChains(fn))
            ELSE Ok(None)

\* Shapes of accept_prob: a scalar, a vector of chains, a matrix of chains.
AcceptProbShapes ==
  {<<>>} \cup {<<n>> : n \in 0..MaxChains}
         \cup {<<n, m>> : n \in 0..MaxChains, m \in 0..MaxChains}

\* chees_criterion has no state_mean; snaper_criterion takes one or None.
StateMeans(fn) == IF fn = "snaper_criterion" THEN {None, Some(0)} ELSE {None}

Criterion(fn, accept_prob_shape, static_shape, validate_args, state_mean) ==
  /\ call.fn = "none"
  /\ call' = [fn |-> fn,
              args |-> [accept_prob_shape |-> accept_prob_shape,
                        static_shape |-> static_shape,
                        validate_args |-> validate_args,
                        state_mean |-> state_mean]]
  /\ result' = criterion(fn, accept_prob_shape, static_shape, validate_args, state_mean)
  /\ UNCHANGED <<_REGISTERED_REDUCE_OPS, graph_tensor, last_registered, kernel, kernel_results>>

InitCriterion ==
  /\ _REGISTERED_REDUCE_OPS = InitialReduceOps
  /\ graph_tensor = ComponentGraph(<<1>>)
  /\ call = NoCall
  /\ result = Ok(None)
  /\ last_registered = LoadTime
  /\ kernel = None
  /\ kernel_results = None

NextCriterion ==
  \/ Idle /\ \E fn \in Criteria, accept_prob_shape \in AcceptProbShapes,
                 static_shape \in BOOLEAN, validate_args \in BOOLEAN :
       \E state_mean \in StateMeans(fn) :
         Criterion(fn, accept_prob_shape, static_shape, validate_args, state_mean)
  \/ Continue

SpecCriterion == InitCriterion /\ [][NextCriterion]_vars

----------------------------------------------------------------------------
(* Properties of the registry.                                             *)

NameSet(names) == {names[i] : i \in 1..Len(names)}

NoDuplicates(names) == \A i, j \in 1..Len(names) : names[i] = names[j] => i = j

\* What get_registered_reduce_operation_names() returns in the current state.
RegisteredNames == get_registered_reduce_operation_names(_REGISTERED_REDUCE_OPS).ret

InitialNames == {"sum", "mean", "max", "min", "prod"}

\* C2: the registry starts with exactly the names sum, mean, max, min, prod;
\* no step removes a name from the names that
\* get_registered_reduce_operation_names() returns, each name is listed once
\* and the five initial names are always listed.
RegistryOnlyGrows ==
  /\ NameSet(RegisteredNames) = InitialNames
  /\ [][NameSet(RegisteredNames) \subseteq NameSet(RegisteredNames')]_vars
  /\ [](NoDuplicates(RegisteredNames) /\ InitialNames \subseteq NameSet(RegisteredNames))

\* A name was added and then an initial name was overridden.
RegistryOnlyGrowsWitness ==
  /\ call.fn = "register_reduce_operation"
  /\ call.args.reduce_type = "sum"
  /\ call.args.allow_override
  /\ Returned(result)
  /\ "custom" \in NameSet(RegisteredNames)

RegisterStep == Idle /\ call'.fn = "register_reduce_operation"

\* C3: registering a name that is in the registry without allow_override
\* raises ValueError, registering a non-callable operation fails, and a
\* registration that fails leaves the registry as it was.
FailedRegistrationKeepsRegistry ==
  [][RegisterStep =>
       /\ (DictHas(_REGISTERED_REDUCE_OPS, call'.args.reduce_type)
             /\ ~call'.args.allow_override) => result'.exc = "ValueError"
       /\ ~callable(call'.args.unsorted_reduce_op) => ~Returned(result')
       /\ ~Returned(result') => _REGISTERED_REDUCE_OPS' = _REGISTERED_REDUCE_OPS]_vars

\* A name that was registered by an earlier call is registered again.
FailedRegistrationWitness ==
  /\ call.fn = "register_reduce_operation"
  /\ call.args.reduce_type = "custom"
  /\ result.exc = "ValueError"

PoolingFns ==
  {"pool_edges_to_node", "pool_nodes_to_context", "pool_edges_to_context", "pool"}

FeatureFns ==
  PoolingFns \cup {"broadcast_node_to_edges", "broadcast_context_to_nodes",
                   "broadcast_context_to_edges", "broadcast", "gather_first_node"}

\* The reduce type a pooling call runs with.
ReduceTypeOfCall == Default(call.args.reduce_type, "sum")

ExactlyOneFeatureArg == (call.args.feature_value = None) # (call.args.feature_name = None)

\* The set names that _validate_names_and_tag is to accept.
AcceptedNames(tag, edge_set_name, node_set_name) ==
  IF tag = CONTEXT
  THEN (edge_set_name = None) # (node_set_name = None)
  ELSE edge_set_name # None /\ node_set_name = None

AcceptedCall ==
  call.fn \in {"broadcast", "pool"} =>
    AcceptedNames(call.args.tag, call.args.edge_set_name, call.args.node_set_name)

\* C4: a pooling call with a reduce type that has been registered applies the
\* operation that was last registered under that name; with otherwise valid
\* arguments it returns.
PoolAppliesLastRegistered ==
  (call.fn \in PoolingFns /\ ReduceTypeOfCall \in DOMAIN last_registered) =>
    /\ Returned(result) => result.op = last_registered[ReduceTypeOfCall]
    /\ (ExactlyOneFeatureArg /\ AcceptedCall) => Returned(result)

\* 'sum' was overridden by the max operation, and a pooling call with 'sum'
\* applied the max operation.
PoolAppliesLastRegisteredWitness ==
  /\ call.fn \in PoolingFns
  /\ ReduceTypeOfCall = "sum"
  /\ result.op = "unsorted_segment_max"

\* C5: a pooling call with a reduce type that is not in the registry raises
\* ValueError, returns nothing and applies no reduce operation.
UnknownReduceTypeRaises ==
  (call.fn \in PoolingFns /\ ~DictHas(_REGISTERED_REDUCE_OPS, ReduceTypeOfCall)) =>
    /\ result.exc = "ValueError"
    /\ result.ret = None
    /\ result.op = "none"

UnknownReduceTypeWitness ==
  /\ call.fn = "pool_edges_to_context"
  /\ call.args.reduce_type = "bogus"
  /\ ExactlyOneFeatureArg
  /\ result.exc = "ValueError"
  /\ result.msg = "Unknown reduce type bogus."

----------------------------------------------------------------------------
(* Properties of the arguments.                                            *)

\* The features a call reads feature_name from: those of the source node set,
\* edge set or context.
SourceFeatures ==
  LET a == call.args
      nodes_at_tag == NodeSetOfTag(graph_tensor, a.edge_set_name, a.tag).features
      nodes == graph_tensor.node_sets[Val(a.node_set_name)].features
      edges == graph_tensor.edge_sets[Val(a.edge_set_name)].features
      context == graph_tensor.context.features
  IN CASE call.fn = "broadcast_node_to_edges" -> nodes_at_tag
       [] call.fn = "pool_edges_to_node" -> edges
       [] call.fn \in {"broadcast_context_to_nodes", "broadcast_context_to_edges"} -> context
       [] call.fn \in {"pool_nodes_to_context", "gather_first_node"} -> nodes
       [] call.fn = "pool_edges_to_context" -> edges
       [] call.fn = "broadcast" -> IF a.tag = CONTEXT THEN context ELSE nodes_at_tag
       [] call.fn = "pool" -> IF a.tag = CONTEXT /\ a.node_set_name # None
                              THEN nodes ELSE edges

\* C6: a broadcast, pool or gather call with both or neither of feature_value
\* and feature_name raises ValueError; with feature_value only it works on
\* that value, with feature_name only on the feature of that name of the
\* source node set, edge set or context.
ExactlyOneOfNameAndValue ==
  call.fn \in FeatureFns =>
    /\ ~ExactlyOneFeatureArg => result.exc = "ValueError"
    /\ (Returned(result) /\ call.args.feature_name = None)
         => result.value = call.args.feature_value
    /\ (Returned(result) /\ call.args.feature_value = None)
         => result.value = Some(SourceFeatures[Val(call.args.feature_name)])

\* broadcast_node_to_edges read the named feature from the node set at TARGET.
ExactlyOneOfNameAndValueWitness ==
  /\ call.fn = "broadcast_node_to_edges"
  /\ call.args.tag = TARGET
  /\ call.args.feature_value = None
  /\ Returned(result)
  /\ result.value = Some(graph_tensor.node_sets["b"].features["h"])

\* C7: broadcast() and pool() call an underlying function for the accepted
\* combinations of tag and set names, and for every other combination raise
\* ValueError without calling one.
NamesAndTagValidated ==
  call.fn \in {"broadcast", "pool"} =>
    IF AcceptedNames(call.args.tag, call.args.edge_set_name, call.args.node_set_name)
    THEN result.via.fn # "none"
    ELSE result.exc = "ValueError" /\ result.via = NoVia

\* pool() to CONTEXT with both set names is rejected.
NamesAndTagValidatedWitness ==
  /\ call.fn = "pool"
  /\ call.args.tag = CONTEXT
  /\ call.args.edge_set_name # None
  /\ call.args.node_set_name # None
  /\ result.exc = "ValueError"
  /\ result.via = NoVia

\* C8: for the accepted combinations broadcast() has the outcome of the
\* underlying function for its tag and set name, which is called with a set
\* name that is not None.
BroadcastDelegates ==
  (call.fn = "broadcast" /\ AcceptedCall) =>
    LET a == call.args
        expected ==
          IF a.tag = CONTEXT /\ a.node_set_name # None
          THEN Via("broadcast_context_to_nodes", a.node_set_name,
                   broadcast_context_to_nodes(graph_tensor, a.node_set_name,
                                              a.feature_value, a.feature_name))
          ELSE IF a.tag = CONTEXT
          THEN Via("broadcast_context_to_edges", a.edge_set_name,
                   broadcast_context_to_edges(graph_tensor, a.edge_set_name,
                                              a.feature_value, a.feature_name))
          ELSE Via("broadcast_node_to_edges", a.edge_set_name,
                   broadcast_node_to_edges(graph_tensor, a.edge_set_name, a.tag,
                                           a.feature_value, a.feature_name))
    IN result = expected /\ result.via.set_name # None

\* broadcast() from CONTEXT with an edge set name returned the edge broadcast.
BroadcastDelegatesWitness ==
  /\ call.fn = "broadcast"
  /\ call.args.tag = CONTEXT
  /\ call.args.edge_set_name # None
  /\ Returned(result)
  /\ result.via.fn = "broadcast_context_to_edges"
  /\ Len(result.ret) = total_size(graph_tensor.edge_sets[Val(call.args.edge_set_name)])

\* C9: for the accepted combinations pool() has the outcome of the underlying
\* function for its tag and set name, called with the reduce type of the call
\* ('sum' when it is left out).
PoolDelegates ==
  (call.fn = "pool" /\ AcceptedCall) =>
    LET a == call.args
        reduce_type == IF a.reduce_type = Omitted THEN "sum" ELSE a.reduce_type
        expected ==
          IF a.tag = CONTEXT /\ a.node_set_name # None
          THEN Via("pool_nodes_to_context", a.node_set_name,
                   pool_nodes_to_context(_REGISTERED_REDUCE_OPS, graph_tensor,
                                         a.node_set_name, reduce_type,
                                         a.feature_value, a.feature_name))
          ELSE IF a.tag = CONTEXT
          THEN Via("pool_edges_to_context", a.edge_set_name,
                   pool_edges_to_context(_REGISTERED_REDUCE_OPS, graph_tensor,
                                         a.edge_set_name, reduce_type,
                                         a.feature_value, a.feature_name))
          ELSE Via("pool_edges_to_node", a.edge_set_name,
                   pool_edges_to_node(_REGISTERED_REDUCE_OPS, graph_tensor,
                                      a.edge_set_name, a.tag, reduce_type,
                                      a.feature_value, a.feature_name))
    IN result = expected

\* pool() to TARGET with 'max' returned the maxima of pool_edges_to_node.
PoolDelegatesWitness ==
  /\ call.fn = "pool"
  /\ call.args.tag = TARGET
  /\ call.args.reduce_type = "max"
  /\ Returned(result)
  /\ result.via.fn = "pool_edges_to_node"
  /\ result.op = "unsorted_segment_max"

----------------------------------------------------------------------------
(* Properties of the functions.                                            *)

\* The incidence of the call: the node index of each edge at the tag of the call.
IncidenceOfCall ==
  graph_tensor.edge_sets[Val(call.args.edge_set_name)].adjacency.indices[call.args.tag]

\* Every node of the node set at the tag is the endpoint of exactly one edge.
SingleEdgeIncidence ==
  \A node \in 0..(total_size(NodeSetOfTag(graph_tensor, call.args.edge_set_name,
                                          call.args.tag)) - 1) :
    Cardinality({e \in 1..Len(IncidenceOfCall) : IncidenceOfCall[e] = node}) = 1

\* C1: when every node at the tag is the endpoint of exactly one edge,
\* pooling with 'sum' the broadcast of a node feature x gives x back.
BroadcastThenPoolIsIdentity ==
  (call.fn = "pool_edges_to_node(broadcast_node_to_edges)" /\ SingleEdgeIncidence) =>
    Returned(result) /\ result.ret = Val(call.args.feature_value)

\* The round trip over three edges that list the nodes out of order.
BroadcastThenPoolWitness ==
  /\ call.fn = "pool_edges_to_node(broadcast_node_to_edges)"
  /\ call.args.tag = TARGET
  /\ IncidenceOfCall = <<2, 0, 1>>
  /\ call.args.feature_value = Some(<<5, 3, 1>>)
  /\ result.ret = <<5, 3, 1>>

\* The component (from 1) of item j (from 0) of a set with these sizes.
ComponentOf(sizes, j) ==
  CHOOSE c \in 1..Len(sizes) : FirstIndex(sizes, c) <= j /\ j < FirstIndex(sizes, c + 1)

\* The feature value a call with exactly one feature argument works on.
ValueOfCall ==
  IF call.args.feature_value # None
  THEN Val(call.args.feature_value)
  ELSE SourceFeatures[Val(call.args.feature_name)]

\* C10: gather_first_node returns one value per component; when every
\* component has a node, the value for component c is that of the node at
\* index sizes[0] + ... + sizes[c-1], which is a node of the node set, lies in
\* component c and is the first one there.
GatherFirstNodeOfEachComponent ==
  call.fn = "gather_first_node" =>
    LET sizes == graph_tensor.node_sets[Val(call.args.node_set_name)].sizes
        first(c) == SeqSum(SubSeq(sizes, 1, c - 1))
    IN /\ Returned(result) => Len(result.ret) = Len(graph_tensor.context.sizes)
       /\ (ExactlyOneFeatureArg /\ \A c \in 1..Len(sizes) : sizes[c] >= 1) =>
            /\ Returned(result)
            /\ \A c \in 1..Len(sizes) :
                 /\ first(c) \in 0..(SeqSum(sizes) - 1)
                 /\ ComponentOf(sizes, first(c)) = c
                 /\ first(c) = 0 \/ ComponentOf(sizes, first(c) - 1) = c - 1
                 /\ result.ret[c] = ValueOfCall[first(c) + 1]

\* Three components of 2, 1 and 2 nodes: the nodes at 0, 2 and 3 are read.
GatherFirstNodeWitness ==
  /\ call.fn = "gather_first_node"
  /\ graph_tensor.node_sets["nodes"].sizes = <<2, 1, 2>>
  /\ call.args.feature_value = Some(<<5, 3, 1, -1, -3>>)
  /\ result.ret = <<5, 1, -1>>

\* C11: gather_first_node on a node set in which a component has no nodes
\* fails with an error and returns no gathered values, whichever component
\* is the empty one.
GatherFirstNodeOfEmptyComponentFails ==
  call.fn = "gather_first_node" =>
    LET sizes == graph_tensor.node_sets[Val(call.args.node_set_name)].sizes
    IN (\E c \in 1..Len(sizes) : sizes[c] <= 0) =>
         ~Returned(result) /\ result.ret = None

\* The middle component of three is empty; every start index 0, 2, 2 is that
\* of a node, so that without the assertion the gather would return.
GatherFirstNodeOfEmptyComponentWitness ==
  /\ call.fn = "gather_first_node"
  /\ graph_tensor.node_sets["nodes"].sizes = <<2, 0, 1>>
  /\ ExactlyOneFeatureArg
  /\ result.exc = "InvalidArgumentError"

\* C12: broadcast_node_to_edges returns one value per edge, in edge order;
\* the value for edge e is the feature value of the node that the adjacency
\* lists for e at node_tag.
BroadcastNodeToEdgesFollowsAdjacency ==
  call.fn = "broadcast_node_to_edges" =>
    /\ Returned(result)
    /\ Len(result.ret) = total_size(graph_tensor.edge_sets[Val(call.args.edge_set_name)])
    /\ \A e \in 1..Len(result.ret) : result.ret[e] = ValueOfCall[IncidenceOfCall[e] + 1]

\* Three edges at SOURCE: two of them at node 2, none at node 1.
BroadcastNodeToEdgesWitness ==
  /\ call.fn = "broadcast_node_to_edges"
  /\ call.args.tag = SOURCE
  /\ IncidenceOfCall = <<2, 0, 2>>
  /\ call.args.feature_value = Some(<<5, 3, 1>>)
  /\ result.ret = <<1, 5, 1>>

\* The edges (from 1) whose endpoint at the tag of the call is node n (from 0).
EdgesAt(n) == {e \in 1..Len(IncidenceOfCall) : IncidenceOfCall[e] = n}

\* The sum of value[e] over the edges e of a set.
RECURSIVE SumOver(_, _)
SumOver(value, edges) ==
  IF edges = {} THEN 0
  ELSE LET e == CHOOSE x \in edges : TRUE IN value[e] + SumOver(value, edges \ {e})

\* C13: pool_edges_to_node returns one value per node of the node set at
\* node_tag; with reduce type 'sum' the value for node n is the sum of the
\* values of the edges whose endpoint at node_tag is n, 0 when there is none.
PoolEdgesToNodeSumsIncidentEdges ==
  call.fn = "pool_edges_to_node" =>
    /\ Returned(result)
    /\ Len(result.ret) = total_size(NodeSetOfTag(graph_tensor, call.args.edge_set_name,
                                                 call.args.tag))
    /\ ReduceTypeOfCall = "sum" =>
         \A n \in 0..(Len(result.ret) - 1) :
           result.ret[n + 1] = SumOver(ValueOfCall, EdgesAt(n))

\* Three edges at TARGET on four nodes: two at node 1, one at node 0, and no
\* edge at the nodes 2 and 3.
PoolEdgesToNodeWitness ==
  /\ call.fn = "pool_edges_to_node"
  /\ call.args.tag = TARGET
  /\ ReduceTypeOfCall = "sum"
  /\ IncidenceOfCall = <<1, 0, 1>>
  /\ call.args.feature_value = Some(<<5, 3, 1>>)
  /\ result.ret = <<3, 6, 0, 0>>

----------------------------------------------------------------------------
(* Properties of the context functions.                                    *)

\* The sizes of the node set or edge set of the call.
SizesOfCall ==
  IF call.args.node_set_name # None
  THEN graph_tensor.node_sets[Val(call.args.node_set_name)].sizes
  ELSE graph_tensor.edge_sets[Val(call.args.edge_set_name)].sizes

\* The items (from 1) of component c (from 1): the indices j (from 0) with
\* sizes[0] + ... + sizes[c-1] <= j < sizes[0] + ... + sizes[c].
ItemsOf(sizes, c) ==
  {j + 1 : j \in {i \in 0..(SeqSum(sizes) - 1) :
                    SeqSum(SubSeq(sizes, 1, c - 1)) <= i /\ i < SeqSum(SubSeq(sizes, 1, c))}}

\* C14: pool_nodes_to_context and pool_edges_to_context return one value per
\* component; with reduce type 'sum' the value for component c is the sum of
\* the values of the items of c, and every item is in exactly one component.
PoolToContextSumsComponents ==
  call.fn \in {"pool_nodes_to_context", "pool_edges_to_context"} =>
    /\ Returned(result)
    /\ Len(result.ret) = Len(graph_tensor.context.sizes)
    /\ ReduceTypeOfCall = "sum" =>
         \A c \in 1..Len(result.ret) :
           result.ret[c] = SumOver(ValueOfCall, ItemsOf(SizesOfCall, c))
    /\ \A j \in 1..SeqSum(SizesOfCall) :
         Cardinality({c \in 1..Len(SizesOfCall) : j \in ItemsOf(SizesOfCall, c)}) = 1

\* Edges of three components, the middle one without an edge.
PoolToContextWitness ==
  /\ call.fn = "pool_edges_to_context"
  /\ ReduceTypeOfCall = "sum"
  /\ graph_tensor.edge_sets["edges"].sizes = <<2, 0, 1>>
  /\ call.args.feature_value = Some(<<5, 3, 1>>)
  /\ result.ret = <<8, 0, 1>>

\* C15: broadcast_context_to_nodes returns one value per node of the node
\* set: the context value of component c repeated sizes[c] times, in
\* component order, so that each node has the value of its component.
BroadcastContextToNodesRepeats ==
  call.fn = "broadcast_context_to_nodes" =>
    /\ Returned(result)
    /\ Len(result.ret) = total_size(graph_tensor.node_sets[Val(call.args.node_set_name)])
    /\ \A c \in 1..Len(SizesOfCall) :
         /\ Cardinality(ItemsOf(SizesOfCall, c)) = SizesOfCall[c]
         /\ \A j \in ItemsOf(SizesOfCall, c) : result.ret[j] = ValueOfCall[c]

\* Three components of 1, 0 and 2 nodes.
BroadcastContextToNodesWitness ==
  /\ call.fn = "broadcast_context_to_nodes"
  /\ graph_tensor.node_sets["nodes"].sizes = <<1, 0, 2>>
  /\ call.args.feature_value = Some(<<5, 3, 1>>)
  /\ result.ret = <<5, 1, 1>>

\* The number of nodes of the node set that the edges of the call start from.
NumberOfNodesOfCall ==
  total_size(NodeSetOfTag(graph_tensor, call.args.edge_set_name, SOURCE))

NumberOfEdgesOfCall ==
  total_size(graph_tensor.edge_sets[Val(call.args.edge_set_name)])

----------------------------------------------------------------------------
(* Frame properties.                                                       *)

StatelessFns ==
  FeatureFns \cup {"get_registered_reduce_operation_names", "shuffle_scalar_components"}

\* C17: a call of a broadcast, pool or gather function, of
\* get_registered_reduce_operation_names or of shuffle_scalar_components,
\* whether it returns or raises, leaves the registry and the graph tensor as
\* they were; the registry changes only by a call of register_reduce_operation.
CallsAreStateless ==
  [][(call'.fn \in StatelessFns =>
        _REGISTERED_REDUCE_OPS' = _REGISTERED_REDUCE_OPS /\ graph_tensor' = graph_tensor)
     /\ (_REGISTERED_REDUCE_OPS' # _REGISTERED_REDUCE_OPS =>
           call'.fn = "register_reduce_operation")
     /\ graph_tensor' = graph_tensor]_vars

\* After a registration, a pooling call with a reduce type that is not
\* registered raised and left the registry of six names.
CallsAreStatelessWitness ==
  /\ call.fn \in PoolingFns
  /\ ReduceTypeOfCall = "bogus"
  /\ ~Returned(result)
  /\ RegisteredNames = <<"sum", "mean", "max", "min", "prod", "custom">>

\* The graph tensor with the features of another one.
WithFeaturesOf(graph, other) ==
  replace_features(graph, other.context.features,
                   [n \in DOMAIN other.node_sets |-> other.node_sets[n].features],
                   [e \in DOMAIN other.edge_sets |-> other.edge_sets[e].features])

\* The context and the node and edge sets of a graph tensor, by name.
Pieces(graph) ==
  [p \in {<<"context", "">>} \cup {<<"node_sets", n>> : n \in DOMAIN graph.node_sets}
            \cup {<<"edge_sets", e>> : e \in DOMAIN graph.edge_sets} |->
     IF p[1] = "context" THEN graph.context
     ELSE IF p[1] = "node_sets" THEN graph.node_sets[p[2]] ELSE graph.edge_sets[p[2]]]

\* C18: shuffle_scalar_components returns a graph tensor with the node sets,
\* edge sets and context of the input, each with the feature names, the
\* sizes and the adjacency it has in the input: the two differ in the
\* feature values only.
ShuffleKeepsStructure ==
  call.fn = "shuffle_scalar_components" =>
    /\ Returned(result)
    /\ DOMAIN Pieces(result.ret) = DOMAIN Pieces(graph_tensor)
    /\ \A p \in DOMAIN Pieces(graph_tensor) :
         /\ DOMAIN Pieces(result.ret)[p].features = DOMAIN Pieces(graph_tensor)[p].features
         /\ Pieces(result.ret)[p].sizes = Pieces(graph_tensor)[p].sizes
    /\ \A e \in DOMAIN graph_tensor.edge_sets :
         result.ret.edge_sets[e].adjacency = graph_tensor.edge_sets[e].adjacency
    /\ WithFeaturesOf(result.ret, graph_tensor) = graph_tensor

\* Two components of 2 nodes and 1 node: the context values were exchanged.
ShuffleKeepsStructureWitness ==
  /\ call.fn = "shuffle_scalar_components"
  /\ Returned(result)
  /\ graph_tensor.node_sets["nodes"].sizes = <<2, 1>>
  /\ result.ret.node_sets["nodes"].sizes = <<2, 1>>
  /\ graph_tensor.context.features["h"] = <<41, 42>>
  /\ result.ret.context.features["h"] = <<42, 41>>

\* The number of times v occurs in the sequence x.
Count(x, v) == Cardinality({i \in 1..Len(x) : x[i] = v})

\* y has the rows of x, each as many times as x has it.
IsPermutation(x, y) ==
  /\ Len(x) = Len(y)
  /\ \A i \in 1..Len(x) : Count(y, x[i]) = Count(x, x[i])

\* C19: each dense feature of the result of shuffle_scalar_components is a
\* permutation of the rows of the input feature; each ragged feature has the
\* row lengths of the input feature and a permutation of its flat values.
ShufflePermutesValues ==
  call.fn = "shuffle_scalar_components" =>
    /\ Returned(result)
    /\ \A p \in DOMAIN Pieces(graph_tensor) :
         \A f \in DOMAIN Pieces(graph_tensor)[p].features :
           LET input == Pieces(graph_tensor)[p].features[f]
               output == Pieces(result.ret)[p].features[f]
           IN IF Pieces(graph_tensor)[p].features_spec[f] = "RaggedTensor"
              THEN /\ output.row_lengths = input.row_lengths
                   /\ IsPermutation(input.values, output.values)
              ELSE IsPermutation(input, output)

\* A ragged node feature with rows of 2, 0 and 1 values, and a dense edge
\* feature: the flat values were rotated and the edge values exchanged.
ShufflePermutesValuesWitness ==
  /\ call.fn = "shuffle_scalar_components"
  /\ Returned(result)
  /\ graph_tensor.node_sets["nodes"].features_spec["h"] = "RaggedTensor"
  /\ graph_tensor.node_sets["nodes"].features["h"].row_lengths = <<2, 0, 1>>
  /\ result.ret.node_sets["nodes"].features["h"].row_lengths = <<2, 0, 1>>
  /\ result.ret.node_sets["nodes"].features["h"].values = <<53, 51, 52>>
  /\ result.ret.edge_sets["edges"].features["h"] = <<32, 31>>

----------------------------------------------------------------------------
(* Properties of the adaptation kernel.                                    *)

\* A step that is a one_step call: the results threaded so far are replaced.
IsOneStep == kernel_results # None /\ kernel_results' # kernel_results

\* The number of one_step calls made since bootstrap_results.
StepsTaken == Val(kernel_results).step

\* C20: max_trajectory_length is adapted only during the first
\* num_adaptation_steps one_step calls: every later one_step returns kernel
\* results with the max_trajectory_length of the results it was given.
AdaptationStopsAtHorizon ==
  [][(IsOneStep /\ StepsTaken >= Val(kernel).num_adaptation_steps) =>
       Val(kernel_results').max_trajectory_length
         = Val(kernel_results).max_trajectory_length]_vars

\* num_adaptation_steps = 1 as in testNumAdaptationSteps: the first one_step
\* moved the length from 1 to 3 and the second one kept it.
AdaptationStopsAtHorizonWitness ==
  /\ kernel # None
  /\ kernel_results # None
  /\ Val(kernel).num_adaptation_steps = 1
  /\ Val(kernel_results).step = 2
  /\ Val(kernel_results).max_trajectory_length = 3

----------------------------------------------------------------------------
(* Properties of the error messages.                                       *)

\* The number of set names that the call passes.
NamesPassed ==
  (IF call.args.edge_set_name # None THEN 1 ELSE 0)
    + (IF call.args.node_set_name # None THEN 1 ELSE 0)

\* C27: when broadcast() or pool() is called with tag CONTEXT and not exactly
\* one set name, the number after 'got' in the message of the ValueError is
\* the number of set names passed: 0 for neither, 2 for both.
GotReportsNamesPassed ==
  (call.fn \in {"broadcast", "pool"} /\ call.args.tag = CONTEXT /\ NamesPassed # 1) =>
    /\ result.exc = "ValueError"
    /\ result.msg = "With tag CONTEXT, must pass exactly 1 of edge_set_name, node_set_name; got "
                      \o ToString(NamesPassed) \o "."

----------------------------------------------------------------------------
(* Properties of the adaptation criteria.                                  *)

\* The call is one of a criterion on fewer than 2 chains with validate_args,
\* and no mean of the states is supplied.
TooFewChainsCall ==
  /\ call.fn \in Criteria
  /\ call.args.validate_args
  /\ call.args.state_mean = None
  /\ num_chains(call.args.accept_prob_shape) < 2

\* C21: chees_criterion and snaper_criterion, called with validate_args=True
\* on fewer than 2 chains (a single chain, or acceptance probabilities without
\* batch dimensions) and without a state mean supplied by the caller, raise an
\* error that says that at least 2 chains are required, whether the shape is
\* known statically or only dynamically.
CriterionRequiresTwoChains ==
  TooFewChainsCall =>
    /\ ~Returned(result)
    /\ result.msg = call.fn \o " requires at least 2 chains."

CriterionRequiresTwoChainsWitness ==
  /\ TooFewChainsCall
  /\ call.fn = "snaper_criterion"
  /\ call.args.accept_prob_shape = <<>>
  /\ ~call.args.static_shape
  /\ ~Returned(result)

----------------------------------------------------------------------------
(* Properties of the construction of the kernel.                           *)

ContainsTransformedKernel(k) ==
  \E i \in 1..Len(k) : k[i] = "TransformedTransitionKernel"

\* C22: the constructor of GradientBasedTrajectoryLengthAdaptation raises a
\* ValueError when the inner kernel contains a TransformedTransitionKernel, so
\* that there is no kernel whose bootstrap_results or one_step could be called;
\* wrapping the adaptation kernel inside a TransformedTransitionKernel is
\* accepted.
TransformedKernelOnlyOutside ==
  /\ (call.fn = "GradientBasedTrajectoryLengthAdaptation"
        /\ ContainsTransformedKernel(call.args.inner_kernel)) =>
       (result.exc = "ValueError" /\ kernel = None /\ kernel_results = None)
  /\ kernel_results # None => kernel # None
  /\ kernel # None => ~ContainsTransformedKernel(Val(kernel).inner_kernel)
  /\ call.fn = "TransformedTransitionKernel" =>
       /\ Returned(result)
       /\ kernel # None
       /\ Head(Val(kernel).outer_kernels) = "TransformedTransitionKernel"

TransformedKernelOnlyOutsideWitness ==
  /\ call.fn = "GradientBasedTrajectoryLengthAdaptation"
  /\ call.args.inner_kernel = DualAveragingStepSizeAdaptation(TransformedTransitionKernel(HamiltonianMonteCarlo))
  /\ result.exc = "ValueError"
  /\ kernel = None

----------------------------------------------------------------------------
(* Properties of the sharded kernel.                                       *)

Replicas == 1..Len(kernel_results)

\* C23: where the chains are sharded across replicas with
\* experimental_reduce_chain_axis_names, after bootstrap_results and one_step
\* every replica holds the same averaged_sq_grad and the same
\* averaged_max_trajectory_length, although each replica ran with its own seed
\* and chain states.
ReplicasAgree ==
  (kernel # None /\ Val(kernel).experimental_reduce_chain_axis_names # None) =>
    \A i \in Replicas, j \in Replicas :
      /\ kernel_results[i].averaged_sq_grad = kernel_results[j].averaged_sq_grad
      /\ kernel_results[i].averaged_max_trajectory_length
           = kernel_results[j].averaged_max_trajectory_length

ReplicasAgreeWitness ==
  /\ kernel # None
  /\ Val(kernel).experimental_reduce_chain_axis_names # None
  /\ Len(kernel_results) = 2
  /\ call.fn = "one_step"
  /\ call.args.trajectory_grads = <<-1, 2>>
  /\ kernel_results[1].step = 1
  /\ kernel_results[1].averaged_sq_grad = 1
  /\ kernel_results[2].averaged_sq_grad = 1

====
